---------------------------- MODULE Spec2Model ----------------------------
(***************************************************************************)
(* A model of the PowerLang tree-walking interpreter                       *)
(* (src/interpreter): the Environment scope chain, the runtime values,     *)
(* the statement executor and the expression evaluator.                    *)
(*                                                                         *)
(* Environment objects live in the store `envs` (a scope is its index,     *)
(* parent 0 is None); Array objects live in `heap`.  The evaluator is a    *)
(* big-step translation of Interpreter._execute / Interpreter._evaluate:   *)
(* each operator takes the machine state m = [envs, heap, env, output]     *)
(* and yields an outcome record [m, k, v, cls], where k is "value", one    *)
(* of the three signals "return" / "break" / "continue", or "error" with   *)
(* cls the class of the raised Python exception.                           *)
(***************************************************************************)
EXTENDS Integers, Sequences, FiniteSets, TLC

VARIABLES
    envs,     \* the Environment objects: Seq of [parent, values, consts]
    heap,     \* the ArrayValue objects: Seq of element sequences
    env,      \* Interpreter.env, the current scope
    output,   \* what the print builtin has written so far
    status,   \* "running", or how Runtime.run ended
    result,   \* the value (or error class) of the last operation
    last,     \* the operation / statement that ran last
    nsteps,   \* number of operations / top-level statements run so far
    program,  \* the Program being run: [functions, statements]
    main,     \* the run of `python -m powerlang file`: [file, modules, state, error]
    memory,   \* Runtime.memory, the MemoryManager: [allocations, refcounts, next_id]
    parser,   \* the Parser object and what parse() made of it: [tokens, current,
              \* brace_depth, paren_depth, bracket_depth, errors, state, program]
    ledger,   \* what the calls made on the MemoryManager so far should have
              \* done: the ids issued, the live ids, their retains and releases
    lexer     \* the Lexer object and its Scanner: [source, position, start_pos,
              \* tokens, errors, in_type_context, raised, state]

vars == <<envs, heap, env, output, status, result, last, nsteps, program, main, memory, ledger, parser, lexer>>

\* no Lexer has been constructed
NoLexer == [state |-> "none"]

\* no module run as a script
NoMain == [state |-> "none"]

\* MemoryManager(): no allocation, the first id is 1
NewMemoryManager == [allocations |-> <<>>, refcounts |-> <<>>, next_id |-> 1]

\* no call has been made on the MemoryManager
NoCalls ==
    [issued |-> {}, reissued |-> FALSE, live |-> {}, retains |-> <<>>, releases |-> <<>>,
     op |-> "none", uid |-> 0, returned |-> [py |-> "None"], before |-> NewMemoryManager,
     log |-> <<>>]

\* no Parser has been constructed
NoParser == [state |-> "none"]

\* the MemoryManager and the parser of a run that does not use them
Unused == memory = NewMemoryManager /\ ledger = NoCalls /\ parser = NoParser

-----------------------------------------------------------------------------
(* Bounds of the model *)

MaxScopes == 2      \* Environment objects in the Environment-API machine
MaxIter == 4        \* iterations after which a loop of the model is cut off
MaxInt == 2         \* operands of the binary-operator programs are -MaxInt..MaxInt
MaxLen == 3         \* longest array / string of the index-read programs

-----------------------------------------------------------------------------
(* Runtime values (values.py): a tagged union *)

NULL == [t |-> "Null"]
BoolValue(b) == [t |-> "Bool", v |-> b]
IntValue(n) == [t |-> "Int", v |-> n]
\* a float is kept as the exact fraction num/den, den > 0, in lowest terms
FloatValue(n, d) == [t |-> "Float", num |-> n, den |-> d]
\* a string is the sequence of its characters
StringValue(s) == [t |-> "String", v |-> s]
ArrayValue(ref) == [t |-> "Array", ref |-> ref]
HashValue(ref) == [t |-> "Hash", ref |-> ref]
BuiltinFunctionValue(name) == [t |-> "Builtin", name |-> name]
FunctionValue(params, body, closure) ==
    [t |-> "Function", params |-> params, body |-> body, closure |-> closure]
\* a class: its name and its methods by lower-cased name
ClassValue(name, methods) == [t |-> "Class", name |-> name, methods |-> methods]
InstanceValue(ref) == [t |-> "Instance", ref |-> ref]

-----------------------------------------------------------------------------
(* Names.  A name is the sequence of its characters; _normalize_name strips *)
(* blanks, drops one leading "$" and lower-cases.                           *)

UpperLetters ==
    <<"A", "B", "C", "D", "E", "F", "G", "H", "I", "J", "K", "L", "M",
      "N", "O", "P", "Q", "R", "S", "T", "U", "V", "W", "X", "Y", "Z">>
LowerLetters ==
    <<"a", "b", "c", "d", "e", "f", "g", "h", "i", "j", "k", "l", "m",
      "n", "o", "p", "q", "r", "s", "t", "u", "v", "w", "x", "y", "z">>

LowerChar(c) ==
    IF \E i \in 1..26 : UpperLetters[i] = c
    THEN LowerLetters[CHOOSE i \in 1..26 : UpperLetters[i] = c]
    ELSE c

Lower(s) == [i \in 1..Len(s) |-> LowerChar(s[i])]

RECURSIVE LStrip(_)
LStrip(s) == IF Len(s) > 0 /\ Head(s) = " " THEN LStrip(Tail(s)) ELSE s

RECURSIVE RStrip(_)
RStrip(s) ==
    IF Len(s) > 0 /\ s[Len(s)] = " " THEN RStrip(SubSeq(s, 1, Len(s) - 1)) ELSE s

Strip(s) == RStrip(LStrip(s))

StripSigil(s) == IF Len(s) > 0 /\ Head(s) = "$" THEN Tail(s) ELSE s

NormalizeName(name) == Lower(StripSigil(Strip(name)))

-----------------------------------------------------------------------------
(* Environment (environment.py).  Each operation takes the store E and     *)
(* yields [envs, k, cls, v]: k = "ok" or "error" (cls its class).           *)

NewEnvironment(p) == [parent |-> p, values |-> <<>>, consts |-> {}]

EnvOk(E, v) == [envs |-> E, k |-> "ok", cls |-> "", v |-> v]
EnvErr(E, cls) == [envs |-> E, k |-> "error", cls |-> cls, v |-> NULL]

Binds(E, e, key) == key \in DOMAIN E[e].values

SetValue(E, e, key, value, constant) ==
    [E EXCEPT ![e].values = (key :> value) @@ @,
              ![e].consts = IF constant THEN @ \cup {key} ELSE @]

\* define that always binds in the scope it is called on (plain shadowing)
DefineShadowing(E, self, e, key, value, constant) ==
    IF Binds(E, self, key) /\ key \in E[self].consts
    THEN IF constant THEN EnvOk(E, NULL) ELSE EnvErr(E, "RuntimeError")
    ELSE EnvOk(SetValue(E, self, key, value, constant), NULL)

RECURSIVE DefineFrom(_, _, _, _, _, _)
DefineFrom(E, self, e, key, value, constant) ==
    IF e = 0
    THEN EnvOk(SetValue(E, self, key, value, constant), NULL)
    ELSE IF Binds(E, e, key)
         THEN IF key \in E[e].consts
              THEN IF constant THEN EnvOk(E, NULL) ELSE EnvErr(E, "RuntimeError")
              ELSE EnvOk(SetValue(E, e, key, value, constant), NULL)
         ELSE DefineFrom(E, self, E[e].parent, key, value, constant)

Define(E, self, name, value, constant) ==
    DefineFrom(E, self, self, NormalizeName(name), value, constant)

RECURSIVE AssignKey(_, _, _, _)
AssignKey(E, e, key, value) ==
    IF Binds(E, e, key)
    THEN IF key \in E[e].consts
         THEN EnvErr(E, "RuntimeError")
         ELSE EnvOk(SetValue(E, e, key, value, FALSE), NULL)
    ELSE IF E[e].parent # 0
         THEN AssignKey(E, E[e].parent, key, value)
         ELSE EnvErr(E, "NameError")

Assign(E, self, name, value) == AssignKey(E, self, NormalizeName(name), value)

RECURSIVE GetKey(_, _, _)
GetKey(E, e, key) ==
    IF Binds(E, e, key)
    THEN EnvOk(E, E[e].values[key])
    ELSE IF E[e].parent # 0
         THEN GetKey(E, E[e].parent, key)
         ELSE EnvErr(E, "NameError")

Get(E, self, name) == GetKey(E, self, NormalizeName(name))

\* get_optional: k = "ok" with the value, or k = "none" for Python's None
GetOptional(E, self, name) ==
    LET r == Get(E, self, name)
    IN  IF r.k = "ok" THEN r ELSE [r EXCEPT !.k = "none", !.cls = ""]

RECURSIVE Ancestor(_, _, _)
Ancestor(E, e, distance) ==
    IF distance = 0 \/ e = 0 THEN e ELSE Ancestor(E, E[e].parent, distance - 1)

\* assign_at that writes the scope at the given distance without looking at
\* its constant marker
AssignAtUnchecked(E, self, distance, name, value) ==
    LET e == Ancestor(E, self, distance)
        key == NormalizeName(name)
    IN  IF e # 0 /\ Binds(E, e, key)
        THEN EnvOk(SetValue(E, e, key, value, FALSE), NULL)
        ELSE Assign(E, self, name, value)

AssignAt(E, self, distance, name, value) ==
    LET e == Ancestor(E, self, distance)
        key == NormalizeName(name)
    IN  IF e # 0 /\ Binds(E, e, key)
        THEN IF key \in E[e].consts
             THEN EnvErr(E, "RuntimeError")
             ELSE EnvOk(SetValue(E, e, key, value, FALSE), NULL)
        ELSE Assign(E, self, name, value)

Child(E, self) == Append(E, NewEnvironment(self))

-----------------------------------------------------------------------------
(* Runtime (runtime.py): the globals, seeded with the builtins *)

BuiltinNames == << <<"l", "e", "n">>, <<"p", "r", "i", "n", "t">> >>

RECURSIVE SeedBuiltins(_, _)
SeedBuiltins(E, i) ==
    IF i > Len(BuiltinNames)
    THEN E
    ELSE SeedBuiltins(
            Define(E, 1, BuiltinNames[i], BuiltinFunctionValue(BuiltinNames[i]), TRUE).envs,
            i + 1)

\* Runtime.__init__: globals is scope 1
RuntimeInit == SeedBuiltins(<<NewEnvironment(0)>>, 1)

-----------------------------------------------------------------------------
(* Python values and arithmetic, as value_to_python / python_to_value and  *)
(* the operators of _eval_binary use them.  A Python number is             *)
(* [int, n, d]: the int n (d = 1) or the float n/d in lowest terms, d > 0. *)
(* Floats are exact fractions here: the model's operands stay far below    *)
(* the magnitudes where IEEE rounding shows.                               *)

Abs(n) == IF n < 0 THEN -n ELSE n

RECURSIVE Gcd(_, _)
Gcd(a, b) == IF b = 0 THEN a ELSE Gcd(b, a % b)

PyInt(n) == [int |-> TRUE, n |-> n, d |-> 1]
PyFloat(n, d) ==
    LET g == Gcd(Abs(n), d)
    IN  IF n = 0 THEN [int |-> FALSE, n |-> 0, d |-> 1]
        ELSE [int |-> FALSE, n |-> n \div g, d |-> d \div g]

IsNumber(v) == v.t \in {"Bool", "Int", "Float"}

\* value_to_python on a Bool, Int or Float (a bool counts as the int 0 / 1)
ToNumber(v) ==
    CASE v.t = "Bool" -> PyInt(IF v.v THEN 1 ELSE 0)
      [] v.t = "Int" -> PyInt(v.v)
      [] v.t = "Float" -> PyFloat(v.num, v.den)

\* python_to_value on the number an arithmetic operator produced
FromNumber(x) == IF x.int THEN IntValue(x.n) ELSE FloatValue(x.n, x.d)

\* RuntimeValue.is_truthy
IsTruthy(v) ==
    CASE v.t = "Null" -> FALSE
      [] v.t = "Bool" -> v.v
      [] v.t = "Int" -> v.v # 0
      [] v.t = "Float" -> v.num # 0
      [] v.t = "String" -> Len(v.v) > 0
      [] OTHER -> TRUE

\* Python truth of value_to_python(v): the test made by `p or default`
\* (an empty list is false in Python although an ArrayValue is truthy)
PyTruth(v, H) ==
    CASE v.t = "Array" -> Len(H[v.ref].elements) > 0
      [] v.t = "Hash" -> DOMAIN H[v.ref].pairs # {}
      [] OTHER -> IsTruthy(v)

\* value_to_python(v) == 0, the test _eval_binary makes before dividing
PyIsZero(v) == IsNumber(v) /\ ToNumber(v).n = 0

PyAdd(a, b) ==
    IF a.int /\ b.int THEN PyInt(a.n + b.n)
    ELSE PyFloat(a.n * b.d + b.n * a.d, a.d * b.d)

PySub(a, b) ==
    IF a.int /\ b.int THEN PyInt(a.n - b.n)
    ELSE PyFloat(a.n * b.d - b.n * a.d, a.d * b.d)

PyMul(a, b) ==
    IF a.int /\ b.int THEN PyInt(a.n * b.n) ELSE PyFloat(a.n * b.n, a.d * b.d)

\* true division, b # 0: always a float
PyTrueDiv(a, b) ==
    IF b.n > 0 THEN PyFloat(a.n * b.d, a.d * b.n) ELSE PyFloat(-(a.n * b.d), a.d * (-b.n))

\* int(x): truncation toward zero
PyTrunc(a) == IF a.n >= 0 THEN a.n \div a.d ELSE -((-a.n) \div a.d)

\* a % b on ints, b # 0: the result has the sign of b
PyMod(a, b) == IF b > 0 THEN a % b ELSE -((-a) % (-b))

RECURSIVE IntPow(_, _)
IntPow(a, k) == IF k = 0 THEN 1 ELSE a * IntPow(a, k - 1)

\* a ** b for an integral exponent b; [ok, x], ok = FALSE for Python's
\* ZeroDivisionError (zero to a negative power)
PyPow(a, b) ==
    LET k == b.n
        float == ~a.int \/ ~b.int \/ k < 0
        num == IntPow(a.n, Abs(k))
        den == IntPow(a.d, Abs(k))
    IN  IF k < 0 /\ a.n = 0 THEN [ok |-> FALSE, x |-> PyInt(0)]
        ELSE IF ~float THEN [ok |-> TRUE, x |-> PyInt(num)]
        ELSE IF k >= 0 THEN [ok |-> TRUE, x |-> PyFloat(num, den)]
        ELSE IF num > 0 THEN [ok |-> TRUE, x |-> PyFloat(den, num)]
        ELSE [ok |-> TRUE, x |-> PyFloat(-den, -num)]

PyLess(a, b) == a.n * b.d < b.n * a.d
PyNumEq(a, b) == a.n * b.d = b.n * a.d

-----------------------------------------------------------------------------
(* Outcomes.  The machine state is m = [envs, heap, env, output]; every    *)
(* evaluation yields [m, k, v, cls]: k = "value" with the value v, a       *)
(* signal ("return" with its payload v, "break", "continue"), or "error"   *)
(* with cls the class of the Python exception and v its message.           *)

Machine(E, H, e, out) == [envs |-> E, heap |-> H, env |-> e, output |-> out]

Value(m, v) == [m |-> m, k |-> "value", v |-> v, cls |-> ""]
Signal(m, k, v) == [m |-> m, k |-> k, v |-> v, cls |-> ""]
Raise(m, cls, msg) == [m |-> m, k |-> "error", v |-> StringValue(<<cls, msg>>), cls |-> cls]

\* the classes of errors/errors.py that derive from its RuntimeError: what
\* `except PplRuntimeError` catches
PplRuntimeErrors ==
    {"RuntimeError", "DivisionByZeroError", "IndexError", "KeyError",
     "ImportError", "TimeoutError"}

IsPplRuntimeError(cls) == cls \in PplRuntimeErrors

\* an operand combination whose Python result the model does not compute
Unmodelled(m) == Raise(m, "Unmodelled", "unmodelled")

Allocate(m, obj) == [m EXCEPT !.heap = Append(@, obj)]
ArrayObject(elements) == [kind |-> "Array", elements |-> elements]
\* a dict, as the sequence of its [key, value] entries in insertion order
HashObject(pairs) == [kind |-> "Hash", pairs |-> pairs]
\* an instance: its class and its fields by lower-cased name
InstanceObject(klass, fields) == [kind |-> "Instance", klass |-> klass, fields |-> fields]

-----------------------------------------------------------------------------
(* _eval_binary on two evaluated operands *)

\* `p or d` for a numeric context: [num, x]; num = FALSE when the operand
\* stays a non-number (a non-empty string or list, a function, ...)
OrDefault(v, d, H) ==
    IF ~PyTruth(v, H) THEN [num |-> TRUE, x |-> PyInt(d)]
    ELSE IF IsNumber(v) THEN [num |-> TRUE, x |-> ToNumber(v)]
    ELSE [num |-> FALSE, x |-> PyInt(0)]

Digit(n) == CASE n = 0 -> "0" [] n = 1 -> "1" [] n = 2 -> "2" [] n = 3 -> "3"
              [] n = 4 -> "4" [] n = 5 -> "5" [] n = 6 -> "6" [] n = 7 -> "7"
              [] n = 8 -> "8" [] n = 9 -> "9"

RECURSIVE NatStr(_)
NatStr(n) == IF n < 10 THEN <<Digit(n)>> ELSE Append(NatStr(n \div 10), Digit(n % 10))

\* str(value_to_python(v)) for None, bool, int and str
PyStr(v) ==
    CASE v.t = "Null" -> <<"N", "o", "n", "e">>
      [] v.t = "Bool" -> IF v.v THEN <<"T", "r", "u", "e">> ELSE <<"F", "a", "l", "s", "e">>
      [] v.t = "Int" -> IF v.v < 0 THEN <<"-">> \o NatStr(-v.v) ELSE NatStr(v.v)
      [] v.t = "String" -> v.v

HasPyStr(v) == v.t \in {"Null", "Bool", "Int", "String"}

IsScalar(v) == v.t \in {"Null", "Bool", "Int", "Float", "String"}

\* lp == rp on scalars
PyEq(l, r) ==
    IF IsNumber(l) /\ IsNumber(r) THEN PyNumEq(ToNumber(l), ToNumber(r))
    ELSE IF l.t = "String" /\ r.t = "String" THEN l.v = r.v
    ELSE l.t = "Null" /\ r.t = "Null"

\* a ** b on numbers: a fractional power is computed for a zero base only
Power(m, a, b, p) ==
    IF b.d # 1
    THEN IF a.n # 0 THEN Unmodelled(m)
         ELSE IF b.n > 0 THEN Value(m, FloatValue(0, 1))
         ELSE Raise(m, "PyZeroDivisionError", "zero to a negative power")
    ELSE IF p.ok THEN Value(m, FromNumber(p.x))
    ELSE Raise(m, "PyZeroDivisionError", "zero to a negative power")

\* the arithmetic operator op on the operands a, b that `or` produced
ArithOn(m, op, a, b) ==
    IF ~a.num \/ ~b.num
    THEN IF op \in {"STAR", "PERCENT"}
         THEN Unmodelled(m)
         ELSE Raise(m, "PyTypeError", "unsupported operand")
    ELSE CASE op = "PLUS" -> Value(m, FromNumber(PyAdd(a.x, b.x)))
           [] op = "MINUS" -> Value(m, FromNumber(PySub(a.x, b.x)))
           [] op = "STAR" -> Value(m, FromNumber(PyMul(a.x, b.x)))
           [] op = "SLASH" -> Value(m, FromNumber(PyTrueDiv(a.x, b.x)))
           [] op = "PERCENT" ->
                IF PyTrunc(b.x) = 0
                THEN Raise(m, "PyZeroDivisionError", "integer modulo by zero")
                ELSE Value(m, IntValue(PyMod(PyTrunc(a.x), PyTrunc(b.x))))
           [] op = "CARET" -> Power(m, a.x, b.x, PyPow(a.x, b.x))

\* (lp or dl) op (rp or dr)
Arith(m, op, l, r, dl, dr) ==
    ArithOn(m, op, OrDefault(l, dl, m.heap), OrDefault(r, dr, m.heap))

Compare(m, op, l, r) ==
    IF IsNumber(l) /\ IsNumber(r)
    THEN LET a == ToNumber(l)
             b == ToNumber(r)
         IN  Value(m, BoolValue(CASE op = "GT" -> PyLess(b, a)
                                  [] op = "LT" -> PyLess(a, b)
                                  [] op = "GE" -> ~PyLess(a, b)
                                  [] op = "LE" -> ~PyLess(b, a)))
    ELSE IF l.t = "String" /\ r.t = "String" THEN Unmodelled(m)
    ELSE IF IsScalar(l) /\ IsScalar(r) THEN Raise(m, "PyTypeError", "not comparable")
    ELSE Unmodelled(m)

Plus(m, l, r) ==
    IF l.t = "String" \/ r.t = "String"
    THEN IF HasPyStr(l) /\ HasPyStr(r)
         THEN Value(m, StringValue(PyStr(l) \o PyStr(r)))
         ELSE Unmodelled(m)
    ELSE IF l.t = "Array"
    THEN LET elems == m.heap[l.ref].elements \o
                        (IF r.t = "Array" THEN m.heap[r.ref].elements ELSE <<r>>)
             m2 == Allocate(m, ArrayObject(elems))
         IN  Value(m2, ArrayValue(Len(m2.heap)))
    ELSE Arith(m, "PLUS", l, r, 0, 0)

BinaryOp(m, op, l, r) ==
    CASE op \in {"EQ", "NE"} ->
            IF IsScalar(l) /\ IsScalar(r)
            THEN Value(m, BoolValue(PyEq(l, r) = (op = "EQ")))
            ELSE Unmodelled(m)
      [] op \in {"GT", "LT", "GE", "LE"} -> Compare(m, op, l, r)
      [] op = "AND" -> Value(m, BoolValue(IsTruthy(l) /\ IsTruthy(r)))
      [] op = "OR" -> Value(m, BoolValue(IsTruthy(l) \/ IsTruthy(r)))
      [] op = "PLUS" -> Plus(m, l, r)
      [] op \in {"MINUS", "STAR"} -> Arith(m, op, l, r, 0, 0)
      [] op \in {"SLASH", "PERCENT"} ->
            IF PyIsZero(r) THEN Raise(m, "RuntimeError", "Division by zero")
            ELSE Arith(m, op, l, r, 0, 1)
      [] op = "CARET" -> Arith(m, "CARET", l, r, 0, 1)

-----------------------------------------------------------------------------
(* AST nodes, with the attributes the interpreter reads.  An absent        *)
(* optional child (Python's None) is NoNode.                               *)

NoNode == [t |-> "None"]
Present(node) == node.t # "None"

Literal(value) == [t |-> "Literal", value |-> value]
Variable(name) == [t |-> "Variable", name |-> name]
BinaryOperation(left, op, right) ==
    [t |-> "BinaryOperation", left |-> left, operator |-> op, right |-> right]
Assignment(target, op, value) ==
    [t |-> "Assignment", target |-> target, operator |-> op, value |-> value]
CallExpression(callee, arguments) ==
    [t |-> "CallExpression", callee |-> callee, arguments |-> arguments]
IndexAccess(object, index) == [t |-> "IndexAccess", object |-> object, index |-> index]
TernaryExpression(c, a, b) ==
    [t |-> "TernaryExpression", condition |-> c, then_expr |-> a, else_expr |-> b]
ArrayLiteral(elements) == [t |-> "ArrayLiteral", elements |-> elements]
HashPair(key, value) == [key |-> key, value |-> value]
HashLiteral(pairs) == [t |-> "HashLiteral", pairs |-> pairs]
LambdaExpression(parameters, body) ==
    [t |-> "LambdaExpression", parameters |-> parameters, body |-> body]

Block(statements) == [t |-> "Block", statements |-> statements]
ExpressionStatement(e) == [t |-> "ExpressionStatement", expression |-> e]
VariableDeclaration(name, initializer, is_constant) ==
    [t |-> "VariableDeclaration", name |-> name, initializer |-> initializer,
     is_constant |-> is_constant]
FunctionDeclaration(name, parameters, body) ==
    [t |-> "FunctionDeclaration", name |-> name, parameters |-> parameters, body |-> body]
ElseIf(condition, branch) == [condition |-> condition, branch |-> branch]
IfStatement(condition, then_branch, elseif_branches, else_branch) ==
    [t |-> "IfStatement", condition |-> condition, then_branch |-> then_branch,
     elseif_branches |-> elseif_branches, else_branch |-> else_branch]
ForStatement(initializer, condition, increment, body) ==
    [t |-> "ForStatement", initializer |-> initializer, condition |-> condition,
     increment |-> increment, body |-> body]
WhileStatement(condition, body) ==
    [t |-> "WhileStatement", condition |-> condition, body |-> body]
DoWhileStatement(body, condition) ==
    [t |-> "DoWhileStatement", body |-> body, condition |-> condition]
ForeachStatement(variable, collection, body) ==
    [t |-> "ForeachStatement", variable |-> variable, collection |-> collection,
     body |-> body]
CaseClause(values, body) == [values |-> values, body |-> body]
DefaultCase(body) == [t |-> "DefaultCase", body |-> body]
SwitchStatement(expression, cases, default_case) ==
    [t |-> "SwitchStatement", expression |-> expression, cases |-> cases,
     default_case |-> default_case]
ReturnStatement(value) == [t |-> "ReturnStatement", value |-> value]
BreakStatement == [t |-> "BreakStatement"]
ContinueStatement == [t |-> "ContinueStatement"]
\* a token, as far as the interpreter reads it
Token(lexeme) == [t |-> "Token", lexeme |-> lexeme]
CatchClause(exception_variable, block) ==
    [exception_variable |-> exception_variable, block |-> block]
TryCatchStatement(try_block, catch_clauses, finally_block) ==
    [t |-> "TryCatchStatement", try_block |-> try_block,
     catch_clauses |-> catch_clauses, finally_block |-> finally_block]
ThrowStatement(e) == [t |-> "ThrowStatement", expression |-> e]
MemberAccess(object, member_token) ==
    [t |-> "MemberAccess", object |-> object, member_token |-> member_token]
\* `new T(arguments)`, T the lexeme of the type token
NewExpression(type_name, arguments) ==
    [t |-> "NewExpression", type_name |-> type_name, arguments |-> arguments]
ClassDeclaration(name, members) ==
    [t |-> "ClassDeclaration", name |-> name, members |-> members]

\* _var_name: drop the sigil, lower-case
VarName(name) == Lower(StripSigil(name))
\* the name _execute_variable_decl binds: the node's `name` property has
\* dropped one sigil already
DeclName(lexeme) == Lower(StripSigil(StripSigil(lexeme)))
\* the name _execute_foreach binds: the node's `variable_name` property
ForeachName(lexeme) == StripSigil(lexeme)
\* the name a catch clause binds
CatchName(lexeme) ==
    IF Len(lexeme) > 0 /\ Head(lexeme) = "$" THEN Lower(Tail(lexeme)) ELSE lexeme

-----------------------------------------------------------------------------
(* The interpreter (interpreter.py) *)

\* the outcome of an Environment call made by the interpreter on machine m
FromEnv(m, r) ==
    IF r.k = "error"
    THEN Raise(m, r.cls, "environment")
    ELSE Value([m EXCEPT !.envs = r.envs], r.v)

\* prev.child() becomes the current scope
EnterChild(m, parent) ==
    [m EXCEPT !.envs = Child(@, parent), !.env = Len(m.envs) + 1]

\* the `finally: self.env = prev` of blocks, loops, catch clauses and calls
RestoreEnv(r, prev) == [r EXCEPT !.m.env = prev]

\* the builtins the interpreter calls through BuiltinFunctionValue.fn:
\* print appends its arguments to the output and yields Null, len yields
\* the length of an array or string
BuiltinCall(m, name, args) ==
    IF name = <<"p", "r", "i", "n", "t">>
    THEN Value([m EXCEPT !.output = @ \o args], NULL)
    ELSE IF Len(args) = 1 /\ args[1].t = "Array"
    THEN Value(m, IntValue(Len(m.heap[args[1].ref].elements)))
    ELSE IF Len(args) = 1 /\ args[1].t = "String"
    THEN Value(m, IntValue(Len(args[1].v)))
    ELSE Unmodelled(m)

\* int(key) if isinstance(key, (int, float)) else 0
IndexOf(idx) == IF IsNumber(idx) THEN PyTrunc(ToNumber(idx)) ELSE 0

\* `key if isinstance(key, (str, int, float, bool)) else str(key)` for a
\* scalar: None becomes the string "None"
HashKey(v) == IF v.t = "Null" THEN StringValue(PyStr(v)) ELSE v

\* the position of the entry of a dict with a key equal to key, 0 if none
RECURSIVE HashFind(_, _, _)
HashFind(pairs, key, i) ==
    IF i > Len(pairs) THEN 0
    ELSE IF PyEq(pairs[i].key, key) THEN i
    ELSE HashFind(pairs, key, i + 1)

\* pairs[key] = value
HashPut(pairs, key, value) ==
    LET i == HashFind(pairs, key, 1)
    IN  IF i = 0 THEN Append(pairs, [key |-> key, value |-> value])
        ELSE [pairs EXCEPT ![i].value = value]

\* an element read without the wraparound of negative indices
IndexValueNoWrap(m, obj, idx) ==
    LET i == IndexOf(idx)
        n == IF obj.t = "Array" THEN Len(m.heap[obj.ref].elements) ELSE Len(obj.v)
    IN  IF ~(0 <= i /\ i < n)
        THEN Raise(m, "IndexError", "Index out of range")
        ELSE IF obj.t = "Array" THEN Value(m, m.heap[obj.ref].elements[i + 1])
        ELSE Value(m, StringValue(<<obj.v[i + 1]>>))

\* the element read of _eval_index_access on an evaluated object and index
IndexValue(m, obj, idx) ==
    LET i == IndexOf(idx)
    IN  CASE obj.t = "Array" ->
                LET n == Len(m.heap[obj.ref].elements)
                    j == IF i < 0 THEN i + n ELSE i
                IN  IF ~(0 <= j /\ j < n)
                    THEN Raise(m, "IndexError", "Index out of range")
                    ELSE Value(m, m.heap[obj.ref].elements[j + 1])
          [] obj.t = "Hash" ->
                IF ~IsScalar(idx) THEN Unmodelled(m)
                ELSE LET pairs == m.heap[obj.ref].pairs
                         p == HashFind(pairs, HashKey(idx), 1)
                     IN  IF p = 0 THEN Raise(m, "KeyError", "Key not found")
                         ELSE Value(m, pairs[p].value)
          [] obj.t = "String" ->
                LET n == Len(obj.v)
                    j == IF i < 0 THEN i + n ELSE i
                IN  IF ~(0 <= j /\ j < n)
                    THEN Raise(m, "IndexError", "Index out of range")
                    ELSE Value(m, StringValue(<<obj.v[j + 1]>>))
          [] OTHER -> Raise(m, "RuntimeError", "Index access only on array, hash, or string")

\* the element write of _assign_target on an evaluated container and index
IndexStore(m, container, idx, value) ==
    IF container.t = "Array"
    THEN LET n == Len(m.heap[container.ref].elements)
             i == IndexOf(idx)
             j == IF i < 0 THEN i + n ELSE i
         IN  IF 0 <= j /\ j < n
             THEN [m EXCEPT !.heap[container.ref].elements[j + 1] = value]
             ELSE m
    ELSE IF container.t = "Hash" /\ IsScalar(idx)
    THEN [m EXCEPT !.heap[container.ref].pairs = HashPut(@, HashKey(idx), value)]
    ELSE m

\* exception propagation: an outcome that is an error or a signal leaves
\* the handler at once; what follows (K) runs only on a value
Then(r, K(_)) == IF r.k # "value" THEN r ELSE K(r)

\* self.env.define(name, value, constant) on machine m
DefineIn(m, name, value, constant) ==
    FromEnv(m, Define(m.envs, m.env, name, value, constant))

RECURSIVE Execute(_, _)
RECURSIVE Evaluate(_, _)
RECURSIVE ExecuteStatements(_, _, _, _)
RECURSIVE EvaluateList(_, _, _, _)
RECURSIVE ExecuteIfBranches(_, _, _)
RECURSIVE ForLoop(_, _, _)
RECURSIVE WhileLoop(_, _, _)
RECURSIVE DoWhileLoop(_, _, _)
RECURSIVE ForeachLoop(_, _, _, _, _)
RECURSIVE SwitchCases(_, _, _, _, _)
RECURSIVE BindParameters(_, _, _, _, _)
RECURSIVE EvaluatePairs(_, _, _, _)

\* the statements of a list in order, until one does not end with a value
ExecuteStatements(stmts, i, m, lastv) ==
    IF i > Len(stmts)
    THEN Value(m, lastv)
    ELSE Then(Execute(stmts[i], m),
              LAMBDA r : ExecuteStatements(stmts, i + 1, r.m, r.v))

\* [self._evaluate(a) for a in exprs], left to right; v is the list
EvaluateList(exprs, i, m, acc) ==
    IF i > Len(exprs)
    THEN Value(m, acc)
    ELSE Then(Evaluate(exprs[i], m),
              LAMBDA r : EvaluateList(exprs, i + 1, r.m, Append(acc, r.v)))

\* an optional expression: absent, it yields the default value
EvaluateOptional(expr, m, default) ==
    IF Present(expr) THEN Evaluate(expr, m) ELSE Value(m, default)

ExecuteBlock(block, m) ==
    RestoreEnv(ExecuteStatements(block.statements, 1, EnterChild(m, m.env), NULL), m.env)

\* a closure that is a copy of the current scope, made when the function
\* value is created
CaptureSnapshot(m) ==
    [m |-> [m EXCEPT !.envs = Append(@, m.envs[m.env])], closure |-> Len(m.envs) + 1]

\* FunctionValue(..., closure=self.env): the scope itself, not a copy
CaptureEnv(m) == [m |-> m, closure |-> m.env]

\* the function value of a declaration or lambda, closed over scope c
MakeFunction(node, c) ==
    Value(c.m, FunctionValue(node.parameters, node.body, c.closure))

DeclareFunction(node, m) ==
    Then(MakeFunction(node, CaptureEnv(m)),
         LAMBDA f : DefineIn(f.m, node.name, f.v, FALSE))

ExecuteVariableDecl(node, m) ==
    Then(EvaluateOptional(node.initializer, m, NULL),
         LAMBDA r : Then(DefineIn(r.m, DeclName(node.name), r.v, node.is_constant),
                         LAMBDA d : Value(d.m, r.v)))

ExecuteIfBranches(node, i, m) ==
    IF i > Len(node.elseif_branches)
    THEN IF Present(node.else_branch) THEN Execute(node.else_branch, m) ELSE Value(m, NULL)
    ELSE Then(Evaluate(node.elseif_branches[i].condition, m),
              LAMBDA c : IF IsTruthy(c.v)
                         THEN Execute(node.elseif_branches[i].branch, c.m)
                         ELSE ExecuteIfBranches(node, i + 1, c.m))

ExecuteIf(node, m) ==
    Then(Evaluate(node.condition, m),
         LAMBDA c : IF IsTruthy(c.v) THEN Execute(node.then_branch, c.m)
                    ELSE ExecuteIfBranches(node, 1, c.m))

\* what a loop does with the outcome of its body: "stop" on Break, "go on"
\* after a value or Continue, and anything else leaves the loop
LoopCatches(r) == r.k \in {"value", "break", "continue"}

\* the try/except around a loop body with outcome b: K is the rest of the
\* iteration
AfterBody(b, K(_)) ==
    IF ~LoopCatches(b) THEN b
    ELSE IF b.k = "break" THEN Value(b.m, NULL)
    ELSE K(b)

\* a loop condition with outcome c: K runs when it is truthy
WhileTrue(c, K(_)) ==
    Then(c, LAMBDA t : IF ~IsTruthy(t.v) THEN Value(t.m, NULL) ELSE K(t))

ForLoop(node, m, n) ==
    IF n >= MaxIter THEN Raise(m, "Cutoff", "loop")
    ELSE WhileTrue(EvaluateOptional(node.condition, m, BoolValue(TRUE)),
            LAMBDA c : AfterBody(Execute(node.body, c.m),
               LAMBDA b : Then(EvaluateOptional(node.increment, b.m, NULL),
                               LAMBDA u : ForLoop(node, u.m, n + 1))))

ExecuteFor(node, m) ==
    Then(IF Present(node.initializer) THEN Execute(node.initializer, m) ELSE Value(m, NULL),
         LAMBDA i : ForLoop(node, i.m, 0))

WhileLoop(node, m, n) ==
    IF n >= MaxIter THEN Raise(m, "Cutoff", "loop")
    ELSE WhileTrue(Evaluate(node.condition, m),
            LAMBDA c : AfterBody(Execute(node.body, c.m),
                                 LAMBDA b : WhileLoop(node, b.m, n + 1)))

DoWhileLoop(node, m, n) ==
    IF n >= MaxIter THEN Raise(m, "Cutoff", "loop")
    ELSE AfterBody(Execute(node.body, m),
            LAMBDA b : WhileTrue(Evaluate(node.condition, b.m),
                                 LAMBDA c : DoWhileLoop(node, c.m, n + 1)))

\* the items a foreach visits at position i: the live elements of an array,
\* the characters of a string, nothing for any other value
ForeachCount(m, col) ==
    CASE col.t = "Array" -> Len(m.heap[col.ref].elements)
      [] col.t = "String" -> Len(col.v)
      [] OTHER -> 0

ForeachItem(m, col, i) ==
    IF col.t = "Array" THEN m.heap[col.ref].elements[i] ELSE StringValue(<<col.v[i]>>)

ForeachLoop(node, col, i, m, n) ==
    IF i > ForeachCount(m, col) THEN Value(m, NULL)
    ELSE IF n >= MaxIter THEN Raise(m, "Cutoff", "loop")
    ELSE Then(DefineIn(m, ForeachName(node.variable), ForeachItem(m, col, i), FALSE),
            LAMBDA d : AfterBody(Execute(node.body, d.m),
                                 LAMBDA b : ForeachLoop(node, col, i + 1, b.m, n + 1)))

ExecuteForeach(node, m) ==
    Then(Evaluate(node.collection, m),
         LAMBDA c : RestoreEnv(ForeachLoop(node, c.v, 1, EnterChild(c.m, c.m.env), 0),
                               c.m.env))

\* the body of a case or of the default clause: its value is dropped
SwitchBody(block, m) ==
    Then(ExecuteBlock(block, m), LAMBDA b : Value(b.m, NULL))

\* a switch that goes on with the following clauses after a body has run
SwitchCasesFallthrough(node, val, i, j, m) ==
    IF i > Len(node.cases)
    THEN IF Present(node.default_case)
         THEN SwitchBody(node.default_case.body, m)
         ELSE Value(m, NULL)
    ELSE IF j > Len(node.cases[i].values) THEN SwitchCases(node, val, i + 1, 1, m)
    ELSE Then(Evaluate(node.cases[i].values[j], m),
            LAMBDA c : IF ~(IsScalar(c.v) /\ IsScalar(val)) THEN Unmodelled(c.m)
                       ELSE IF PyEq(c.v, val)
                       THEN Then(SwitchBody(node.cases[i].body, c.m),
                                 LAMBDA b : SwitchCases(node, val, i + 1, 1, b.m))
                       ELSE SwitchCases(node, val, i, j + 1, c.m))

\* case i, value j of a switch on val
SwitchCases(node, val, i, j, m) ==
    IF i > Len(node.cases)
    THEN IF Present(node.default_case)
         THEN SwitchBody(node.default_case.body, m)
         ELSE Value(m, NULL)
    ELSE IF j > Len(node.cases[i].values) THEN SwitchCases(node, val, i + 1, 1, m)
    ELSE Then(Evaluate(node.cases[i].values[j], m),
            LAMBDA c : IF ~(IsScalar(c.v) /\ IsScalar(val)) THEN Unmodelled(c.m)
                       ELSE IF PyEq(c.v, val) THEN SwitchBody(node.cases[i].body, c.m)
                       ELSE SwitchCases(node, val, i, j + 1, c.m))

ExecuteSwitch(node, m) ==
    Then(Evaluate(node.expression, m), LAMBDA v : SwitchCases(node, v.v, 1, 1, v.m))

\* the catch variable, bound to the message of the error r in scope m
BindCatchVariable(catch, r, m) ==
    IF Present(catch.exception_variable)
    THEN DefineIn(m, CatchName(catch.exception_variable.lexeme), r.v, FALSE)
    ELSE Value(m, NULL)

\* the first catch clause, run for the error outcome r in a child scope
RunCatch(catch, r) ==
    RestoreEnv(Then(BindCatchVariable(catch, r, EnterChild(r.m, r.m.env)),
                    LAMBDA d : ExecuteBlock(catch.block, d.m)),
               r.m.env)

\* `except PplRuntimeError`: the error classes the try statement handles
Catches(r) == r.k = "error" /\ IsPplRuntimeError(r.cls)

\* the except clause of the try statement on the outcome t of the try
\* block: the first catch clause if there is one, else the error goes on
HandleError(node, t) ==
    IF Catches(t) /\ Len(node.catch_clauses) > 0
    THEN RunCatch(node.catch_clauses[1], t)
    ELSE t

\* the outcome of a try statement whose finally block ended with f: what
\* leaves the finally block replaces the outcome r in flight
AfterFinally(r, f) == IF f.k # "value" THEN f ELSE [r EXCEPT !.m = f.m]

\* a finally clause that runs only when the try statement ends with a value
RunFinallyOnValue(node, r) ==
    IF Present(node.finally_block) /\ r.k = "value"
    THEN AfterFinally(r, ExecuteBlock(node.finally_block, r.m))
    ELSE r

\* the finally clause of a try statement, run on the way out with outcome r
RunFinally(node, r) ==
    IF Present(node.finally_block)
    THEN AfterFinally(r, ExecuteBlock(node.finally_block, r.m))
    ELSE r

ExecuteTryCatch(node, m) ==
    RunFinally(node, HandleError(node, ExecuteBlock(node.try_block, m)))

ExecuteReturn(node, m) ==
    Then(EvaluateOptional(node.value, m, NULL), LAMBDA r : Signal(r.m, "return", r.v))

ExecuteThrow(node, m) ==
    Then(Evaluate(node.expression, m), LAMBDA r : Raise(r.m, "RuntimeError", "thrown"))

\* the methods of a class body: each FunctionDeclaration member, under its
\* lower-cased name, closed over scope e; a later one replaces an earlier
RECURSIVE Methods(_, _, _)
Methods(members, i, e) ==
    IF i = 0 THEN <<>>
    ELSE IF members[i].t = "FunctionDeclaration"
    THEN (Lower(members[i].name) :>
              FunctionValue(members[i].parameters, members[i].body, e))
         @@ Methods(members, i - 1, e)
    ELSE Methods(members, i - 1, e)

DeclareClass(node, m) ==
    DefineIn(m, node.name,
             ClassValue(node.name, Methods(node.members, Len(node.members), m.env)), FALSE)

Execute(stmt, m) ==
    CASE stmt.t = "Block" -> ExecuteBlock(stmt, m)
      [] stmt.t = "ExpressionStatement" -> Evaluate(stmt.expression, m)
      [] stmt.t = "VariableDeclaration" -> ExecuteVariableDecl(stmt, m)
      [] stmt.t = "FunctionDeclaration" ->
            Then(DeclareFunction(stmt, m), LAMBDA d : Value(d.m, NULL))
      [] stmt.t = "ClassDeclaration" ->
            Then(DeclareClass(stmt, m), LAMBDA d : Value(d.m, NULL))
      [] stmt.t = "IfStatement" -> ExecuteIf(stmt, m)
      [] stmt.t = "ForStatement" -> ExecuteFor(stmt, m)
      [] stmt.t = "WhileStatement" -> WhileLoop(stmt, m, 0)
      [] stmt.t = "DoWhileStatement" -> DoWhileLoop(stmt, m, 0)
      [] stmt.t = "ForeachStatement" -> ExecuteForeach(stmt, m)
      [] stmt.t = "SwitchStatement" -> ExecuteSwitch(stmt, m)
      [] stmt.t = "ReturnStatement" -> ExecuteReturn(stmt, m)
      [] stmt.t = "BreakStatement" -> Signal(m, "break", NULL)
      [] stmt.t = "ContinueStatement" -> Signal(m, "continue", NULL)
      [] stmt.t = "TryCatchStatement" -> ExecuteTryCatch(stmt, m)
      [] stmt.t = "ThrowStatement" -> ExecuteThrow(stmt, m)
      [] OTHER -> Value(m, NULL)

\* a binary operation whose -and / -or skips the right operand when the left
\* one decides the result
EvalBinaryShortCircuit(node, m) ==
    Then(Evaluate(node.left, m),
         LAMBDA l : IF node.operator = "AND" /\ ~IsTruthy(l.v) THEN Value(l.m, BoolValue(FALSE))
                    ELSE IF node.operator = "OR" /\ IsTruthy(l.v) THEN Value(l.m, BoolValue(TRUE))
                    ELSE Then(Evaluate(node.right, l.m),
                              LAMBDA r : BinaryOp(r.m, node.operator, l.v, r.v)))

EvalBinary(node, m) ==
    Then(Evaluate(node.left, m),
         LAMBDA l : Then(Evaluate(node.right, l.m),
                         LAMBDA r : BinaryOp(r.m, node.operator, l.v, r.v)))

\* `obj.fields[name] = value` on the evaluated object o, an instance; on
\* any other value nothing is written
FieldStore(o, target, value) ==
    IF o.v.t = "Instance"
    THEN Value([o.m EXCEPT !.heap[o.v.ref].fields =
                              (Lower(target.member_token.lexeme) :> value) @@ @], NULL)
    ELSE Value(o.m, NULL)

\* an assignment that requires the variable to be bound already
AssignTargetStrict(target, value, m) ==
    IF target.t = "Variable"
    THEN FromEnv(m, Assign(m.envs, m.env, VarName(target.name), value))
    ELSE Value(m, NULL)

AssignTarget(target, value, m) ==
    CASE target.t = "Variable" ->
            IF GetOptional(m.envs, m.env, VarName(target.name)).k = "none"
            THEN DefineIn(m, VarName(target.name), value, FALSE)
            ELSE FromEnv(m, Assign(m.envs, m.env, VarName(target.name), value))
      [] target.t = "MemberAccess" ->
            Then(Evaluate(target.object, m), LAMBDA o : FieldStore(o, target, value))
      [] target.t = "IndexAccess" ->
            Then(Evaluate(target.object, m),
                 LAMBDA c : Then(Evaluate(target.index, c.m),
                                 LAMBDA i : Value(IndexStore(i.m, c.v, i.v, value), NULL)))
      [] OTHER -> Value(m, NULL)

\* an evaluated Array, Hash or Instance replaced by a fresh copy of it
Copied(r) ==
    IF r.k = "value" /\ r.v.t \in {"Array", "Hash", "Instance"}
    THEN Value(Allocate(r.m, r.m.heap[r.v.ref]), [r.v EXCEPT !.ref = Len(r.m.heap) + 1])
    ELSE r

\* an assignment that stores a copy of the assigned container
EvalAssignmentByCopy(node, m) ==
    Then(Copied(Evaluate(node.value, m)),
         LAMBDA v : Then(AssignTarget(node.target, v.v, v.m), LAMBDA a : Value(a.m, v.v)))

\* `p or default` holds a number: a falsy value or a Bool, Int or Float
HasNumber(v, H) == ~PyTruth(v, H) \/ IsNumber(v)

\* the value a compound assignment stores, from the target's value l and
\* the evaluated right-hand side r
CompoundValue(m, op, l, r) ==
    IF op \notin {"PLUS_EQUAL", "MINUS_EQUAL", "STAR_EQUAL", "SLASH_EQUAL", "PERCENT_EQUAL"}
    THEN Value(m, l)
    ELSE IF op = "SLASH_EQUAL" /\ ~PyTruth(r, m.heap)
    THEN Value(m, NULL)
    ELSE IF ~HasNumber(l, m.heap) \/ ~HasNumber(r, m.heap)
    THEN Unmodelled(m)
    ELSE CASE op = "PLUS_EQUAL" -> Arith(m, "PLUS", l, r, 0, 0)
           [] op = "MINUS_EQUAL" -> Arith(m, "MINUS", l, r, 0, 0)
           [] op = "STAR_EQUAL" -> Arith(m, "STAR", l, r, 0, 0)
           [] op = "SLASH_EQUAL" -> Arith(m, "SLASH", l, r, 0, 1)
           [] op = "PERCENT_EQUAL" -> Arith(m, "PERCENT", l, r, 0, 1)

\* `self._assign_target(node.target, val); return val`
StoreAndYield(node, value, m) ==
    Then(AssignTarget(node.target, value, m), LAMBDA a : Value(a.m, value))

EvalAssignment(node, m) ==
    Then(Evaluate(node.value, m),
         LAMBDA v : IF node.operator = "EQUAL"
                    THEN StoreAndYield(node, v.v, v.m)
                    ELSE Then(Evaluate(node.target, v.m),
                              LAMBDA t : Then(CompoundValue(t.m, node.operator, t.v, v.v),
                                              LAMBDA c : StoreAndYield(node, c.v, c.m))))

\* a call scope made as a child of the scope the call is made from
CallScopeOfCaller(m, callee) == EnterChild(m, m.env)

\* the scope a call runs in: a child of the function's closure
CallScope(m, callee) == EnterChild(m, callee.closure)

\* the argument a parameter is bound to: the next one, Null when none is left
Argument(args, arg_idx) == IF arg_idx < Len(args) THEN args[arg_idx + 1] ELSE NULL

\* the parameters of a call without receiver, bound positionally in the
\* call scope; a missing argument binds Null
BindParameters(params, i, args, arg_idx, m) ==
    IF i > Len(params)
    THEN Value(m, NULL)
    ELSE Then(DefineIn(m, params[i], Argument(args, arg_idx), FALSE),
              LAMBDA d : BindParameters(params, i + 1, args,
                            IF arg_idx < Len(args) THEN arg_idx + 1 ELSE arg_idx, d.m))

\* the body of a called function: its statements run in the call scope
\* itself, an expression body is evaluated
RunBody(body, m) ==
    IF body.t = "Block" THEN ExecuteStatements(body.statements, 1, m, NULL)
    ELSE Evaluate(body, m)

\* a call that lets a Return signal pass
KeepSignal(r) == r

\* `except ReturnSignal as r: return r.value`
CatchReturn(r) == IF r.k = "return" THEN Value(r.m, r.v) ELSE r

CallFunction(callee, args, m) ==
    RestoreEnv(CatchReturn(Then(BindParameters(callee.params, 1, args, 0, CallScope(m, callee)),
                                LAMBDA p : RunBody(callee.body, p.m))),
               m.env)

\* `p.name in ("this", "self")`: the parameter's lexeme itself
IsThisOrSelf(name) == name \in { <<"t", "h", "i", "s">>, <<"s", "e", "l", "f">> }

\* the member `name` of the evaluated object o
Member(o, name) ==
    IF o.v.t = "Instance" /\ name \in DOMAIN o.m.heap[o.v.ref].fields
    THEN Value(o.m, o.m.heap[o.v.ref].fields[name])
    ELSE IF o.v.t = "Instance" /\ name \in DOMAIN o.m.heap[o.v.ref].klass.methods
    THEN Value(o.m, o.m.heap[o.v.ref].klass.methods[name])
    ELSE IF o.v.t = "Array" /\ name = <<"l", "e", "n", "g", "t", "h">>
    THEN Value(o.m, IntValue(Len(o.m.heap[o.v.ref].elements)))
    ELSE IF o.v.t = "String" /\ name = <<"l", "e", "n", "g", "t", "h">>
    THEN Value(o.m, IntValue(Len(o.v.v)))
    ELSE Raise(o.m, "RuntimeError", "Member not found")

EvalMemberAccess(node, m) ==
    Then(Evaluate(node.object, m), LAMBDA o : Member(o, Lower(node.member_token.lexeme)))

\* `self.env.define("this", this_val, ...)` when the receiver is an instance
BindThis(this, m) ==
    IF this.t = "Instance" THEN DefineIn(m, <<"t", "h", "i", "s">>, this, FALSE)
    ELSE Value(m, NULL)

\* the parameter loop of a method call and of _eval_new: a parameter named
\* this/self is skipped, the others take the arguments in order, Null when
\* none is left
RECURSIVE BindSkippingThis(_, _, _, _, _)
BindSkippingThis(params, i, args, arg_idx, m) ==
    IF i > Len(params) THEN Value(m, NULL)
    ELSE IF IsThisOrSelf(params[i]) THEN BindSkippingThis(params, i + 1, args, arg_idx, m)
    ELSE Then(DefineIn(m, params[i], Argument(args, arg_idx), FALSE),
              LAMBDA d : BindSkippingThis(params, i + 1, args,
                            IF arg_idx < Len(args) THEN arg_idx + 1 ELSE arg_idx, d.m))

\* the parameter loop of the ClassValue branch of _eval_call: parameter i
\* (from 0) takes argument i if there is one, a parameter named this/self
\* is skipped
RECURSIVE BindByPosition(_, _, _, _)
BindByPosition(params, i, args, m) ==
    IF i > Len(params) THEN Value(m, NULL)
    ELSE IF IsThisOrSelf(params[i]) \/ i > Len(args)
    THEN BindByPosition(params, i + 1, args, m)
    ELSE Then(DefineIn(m, params[i], args[i], FALSE),
              LAMBDA d : BindByPosition(params, i + 1, args, d.m))

\* a call through a member access, with receiver this
CallMethod(callee, args, this, m) ==
    RestoreEnv(CatchReturn(
        Then(BindThis(this, CallScope(m, callee)),
             LAMBDA t : Then(BindSkippingThis(callee.params, 1, args, 0, t.m),
                             LAMBDA p : RunBody(callee.body, p.m)))),
        m.env)

\* `methods.get("constructor") or methods.get("__init__")`, else the method
\* named as the class: the sequence of the constructor, empty if none
Constructor(klass) ==
    CASE <<"c", "o", "n", "s", "t", "r", "u", "c", "t", "o", "r">> \in DOMAIN klass.methods ->
            <<klass.methods[<<"c", "o", "n", "s", "t", "r", "u", "c", "t", "o", "r">>]>>
      [] <<"_", "_", "i", "n", "i", "t", "_", "_">> \in DOMAIN klass.methods ->
            <<klass.methods[<<"_", "_", "i", "n", "i", "t", "_", "_">>]>>
      [] Lower(klass.name) \in DOMAIN klass.methods -> <<klass.methods[Lower(klass.name)]>>
      [] OTHER -> <<>>

\* `except ReturnSignal: pass`: what the constructor returns is dropped
DropReturn(r) == IF r.k = "return" THEN Value(r.m, NULL) ELSE r

\* the constructor scope: a child of its closure with `this` bound.  The
\* define of `this` stands before the `try` whose `finally` restores
\* self.env, so an error it raises leaves the constructor scope current.
InitScope(init, inst, m) ==
    DefineIn(EnterChild(m, init.closure), <<"t", "h", "i", "s">>, inst, FALSE)

\* the instance allocated last in m, as the outcome of constructor run r
Instantiated(m, r) == Then(r, LAMBDA x : Value(x.m, InstanceValue(Len(m.heap))))

\* _eval_call, ClassValue branch, on machine m holding the new instance
InitByCall(init, args, m) ==
    IF init = <<>> THEN Value(m, NULL)
    ELSE Then(InitScope(init[1], InstanceValue(Len(m.heap)), m),
              LAMBDA t : RestoreEnv(DropReturn(
                 Then(BindByPosition(init[1].params, 1, args, t.m),
                    LAMBDA p : ExecuteStatements(init[1].body.statements, 1, p.m, NULL))),
                 m.env))

ConstructByCall(klass, args, m) ==
    Instantiated(Allocate(m, InstanceObject(klass, <<>>)),
                 InitByCall(Constructor(klass), args,
                            Allocate(m, InstanceObject(klass, <<>>))))

\* _eval_new on a ClassValue, on machine m holding the new instance
InitByNew(init, args, m) ==
    IF init = <<>> THEN Value(m, NULL)
    ELSE Then(InitScope(init[1], InstanceValue(Len(m.heap)), m),
              LAMBDA t : RestoreEnv(DropReturn(
                 Then(BindSkippingThis(init[1].params, 1, args, 0, t.m),
                    LAMBDA p : ExecuteStatements(init[1].body.statements, 1, p.m, NULL))),
                 m.env))

ConstructByNew(klass, args, m) ==
    Instantiated(Allocate(m, InstanceObject(klass, <<>>)),
                 InitByNew(Constructor(klass), args,
                           Allocate(m, InstanceObject(klass, <<>>))))

\* `self.env.get_optional(name)`, then the globals when that is None
LookupType(m, name) ==
    IF GetOptional(m.envs, m.env, name).k = "ok"
    THEN GetOptional(m.envs, m.env, name)
    ELSE GetOptional(m.envs, 1, name)

\* _eval_new for the looked-up type k on the evaluated arguments
NewOf(k, name, args, m) ==
    IF k.k = "ok" /\ k.v.t = "Class" THEN ConstructByNew(k.v, args, m)
    ELSE IF Lower(name) = <<"a", "r", "r", "a", "y">>
    THEN Value(Allocate(m, ArrayObject(args)), ArrayValue(Len(m.heap) + 1))
    ELSE IF Lower(name) = <<"o", "b", "j", "e", "c", "t">>
    THEN Value(Allocate(m, InstanceObject(ClassValue(<<"O", "b", "j", "e", "c", "t">>, <<>>),
                                          <<>>)),
               InstanceValue(Len(m.heap) + 1))
    ELSE Raise(m, "RuntimeError", "Unknown type")

EvalNew(node, m) ==
    Then(EvaluateList(node.arguments, 1, m, <<>>),
         LAMBDA a : NewOf(LookupType(a.m, node.type_name), node.type_name, a.v, a.m))

\* the call of an evaluated callee c on the evaluated arguments
Apply(c, args) ==
    CASE c.v.t = "Builtin" -> BuiltinCall(c.m, c.v.name, args)
      [] c.v.t = "Function" -> CallFunction(c.v, args, c.m)
      [] c.v.t = "Class" -> ConstructByCall(c.v, args, c.m)
      [] OTHER -> Raise(c.m, "RuntimeError", "Can only call functions or classes")

\* the call of a callee c reached through a member access on receiver this
ApplyMethod(c, args, this) ==
    CASE c.v.t = "Builtin" -> BuiltinCall(c.m, c.v.name, args)
      [] c.v.t = "Function" -> CallMethod(c.v, args, this, c.m)
      [] c.v.t = "Class" -> ConstructByCall(c.v, args, c.m)
      [] OTHER -> Raise(c.m, "RuntimeError", "Can only call functions or classes")

\* the arguments first; a member-access callee has its object evaluated as
\* the receiver and then once more by the member access itself
EvalCall(node, m) ==
    Then(EvaluateList(node.arguments, 1, m, <<>>),
         LAMBDA a : IF node.callee.t = "MemberAccess"
                    THEN Then(Evaluate(node.callee.object, a.m),
                            LAMBDA t : Then(EvalMemberAccess(node.callee, t.m),
                                            LAMBDA c : ApplyMethod(c, a.v, t.v)))
                    ELSE Then(Evaluate(node.callee, a.m), LAMBDA c : Apply(c, a.v)))

EvalIndexAccess(node, m) ==
    Then(Evaluate(node.object, m),
         LAMBDA o : Then(Evaluate(node.index, o.m),
                         LAMBDA i : IndexValue(i.m, o.v, i.v)))

EvalTernary(node, m) ==
    Then(Evaluate(node.condition, m),
         LAMBDA c : IF IsTruthy(c.v) THEN Evaluate(node.then_expr, c.m)
                    ELSE Evaluate(node.else_expr, c.m))

EvalArrayLiteral(node, m) ==
    Then(EvaluateList(node.elements, 1, m, <<>>),
         LAMBDA e : Value(Allocate(e.m, ArrayObject(e.v)), ArrayValue(Len(e.m.heap) + 1)))

\* the entries of a hash literal, key before value, a later equal key
\* replacing the value of an earlier one; v is the dict
EvaluatePairs(pairs, i, m, acc) ==
    IF i > Len(pairs)
    THEN Value(m, acc)
    ELSE Then(Evaluate(pairs[i].key, m),
            LAMBDA k : Then(Evaluate(pairs[i].value, k.m),
               LAMBDA v : IF ~IsScalar(k.v) THEN Unmodelled(v.m)
                          ELSE EvaluatePairs(pairs, i + 1, v.m,
                                             HashPut(acc, HashKey(k.v), v.v))))

EvalHashLiteral(node, m) ==
    Then(EvaluatePairs(node.pairs, 1, m, <<>>),
         LAMBDA e : Value(Allocate(e.m, HashObject(e.v)), HashValue(Len(e.m.heap) + 1)))

Evaluate(expr, m) ==
    CASE expr.t = "Literal" -> Value(m, expr.value)
      [] expr.t = "Variable" -> FromEnv(m, Get(m.envs, m.env, VarName(expr.name)))
      [] expr.t = "BinaryOperation" -> EvalBinary(expr, m)
      [] expr.t = "Assignment" -> EvalAssignment(expr, m)
      [] expr.t = "CallExpression" -> EvalCall(expr, m)
      [] expr.t = "IndexAccess" -> EvalIndexAccess(expr, m)
      [] expr.t = "TernaryExpression" -> EvalTernary(expr, m)
      [] expr.t = "ArrayLiteral" -> EvalArrayLiteral(expr, m)
      [] expr.t = "HashLiteral" -> EvalHashLiteral(expr, m)
      [] expr.t = "LambdaExpression" -> MakeFunction(expr, CaptureEnv(m))
      [] expr.t = "MemberAccess" -> EvalMemberAccess(expr, m)
      [] expr.t = "NewExpression" -> EvalNew(expr, m)
      [] OTHER -> Value(m, NULL)

-----------------------------------------------------------------------------
(* The Environment-API machine: any sequence of child / define / assign /  *)
(* assign_at calls on the scopes of one Runtime.                            *)

EnvNames == { <<"$", "X">>, <<"x">>, <<" ", "L", "e", "n">> }
\* two values, so that a rebinding shows
EnvValues == { IntValue(1), IntValue(2) }
\* the distances that reach every scope of a chain, and one past the root
EnvDistances == 0..(MaxScopes - 1)

EnvOp(op, s, name, value, constant, distance) ==
    [op |-> op, scope |-> s, name |-> name, value |-> value,
     constant |-> constant, distance |-> distance]

EnvInit ==
    /\ envs = RuntimeInit
    /\ heap = <<>>
    /\ env = 1
    /\ output = <<>>
    /\ status = "running"
    /\ result = [k |-> "ok", cls |-> ""]
    /\ last = EnvOp("init", 0, <<>>, NULL, FALSE, 0)
    /\ nsteps = 0
    /\ program = [functions |-> <<>>, classes |-> <<>>, statements |-> <<>>]
    /\ lexer = NoLexer
    /\ main = NoMain
    /\ Unused

EnvEffect(r, op) ==
    /\ envs' = r.envs
    /\ result' = [k |-> r.k, cls |-> r.cls]
    /\ last' = op
    /\ UNCHANGED <<heap, env, output, status, nsteps, program, main, memory, ledger, parser, lexer>>

EnvChild(s) ==
    /\ Len(envs) < MaxScopes
    /\ EnvEffect(EnvOk(Child(envs, s), NULL), EnvOp("child", s, <<>>, NULL, FALSE, 0))

EnvDefine(s, name, value, constant) ==
    EnvEffect(Define(envs, s, name, value, constant),
              EnvOp("define", s, name, value, constant, 0))

EnvAssign(s, name, value) ==
    EnvEffect(Assign(envs, s, name, value), EnvOp("assign", s, name, value, FALSE, 0))

EnvAssignAt(s, distance, name, value) ==
    EnvEffect(AssignAt(envs, s, distance, name, value),
              EnvOp("assign_at", s, name, value, FALSE, distance))

EnvNext ==
    \E s \in 1..Len(envs) :
        \/ EnvChild(s)
        \/ \E name \in EnvNames, value \in EnvValues :
              \/ \E constant \in BOOLEAN : EnvDefine(s, name, value, constant)
              \/ EnvAssign(s, name, value)
              \/ \E distance \in EnvDistances : EnvAssignAt(s, distance, name, value)

SpecEnv == EnvInit /\ [][EnvNext]_vars

-----------------------------------------------------------------------------
(* Properties of the Environment-API machine *)

\* the scopes of e's chain, e first, then its ancestors outward
RECURSIVE Chain(_, _)
Chain(E, e) == IF e = 0 THEN <<>> ELSE <<e>> \o Chain(E, E[e].parent)

\* the nearest scope of e's chain that binds key, 0 when none does
NearestBinder(E, e, key) ==
    LET c == Chain(E, e)
        hits == { i \in 1..Len(c) : Binds(E, c[i], key) }
    IN  IF hits = {} THEN 0 ELSE c[CHOOSE i \in hits : \A j \in hits : i <= j]

\* scope e of E2 is scope e of E1 with key bound to v and nothing else changed
\* in its bindings
Rebound(E1, E2, e, key, v) ==
    /\ DOMAIN E2[e].values = DOMAIN E1[e].values \cup {key}
    /\ E2[e].values[key] = v
    /\ \A k \in DOMAIN E1[e].values : k # key => E2[e].values[k] = E1[e].values[k]
    /\ E2[e].parent = E1[e].parent

OthersSame(E1, E2, e) ==
    /\ Len(E2) = Len(E1)
    /\ \A o \in 1..Len(E1) : o # e => E2[o] = E1[o]

\* C1: define(n, v) on scope S rebinds the nearest scope of S's chain that
\* binds n when that binding is not constant (S gains no binding, no other
\* scope changes); when no scope of the chain binds n, S gains n -> v and no
\* other scope changes.
C1_DefineUpward ==
    [][ last'.op = "define" =>
          LET S == last'.scope
              key == NormalizeName(last'.name)
              T == NearestBinder(envs, S, key)
          IN  /\ (T # 0 /\ key \notin envs[T].consts) =>
                    /\ result'.k = "ok"
                    /\ Rebound(envs, envs', T, key, last'.value)
                    /\ OthersSame(envs, envs', T)
                    /\ (T # S => ~Binds(envs', S, key))
              /\ T = 0 =>
                    /\ result'.k = "ok"
                    /\ ~Binds(envs, S, key)
                    /\ Rebound(envs, envs', S, key, last'.value)
                    /\ OthersSame(envs, envs', S)
      ]_vars

\* a define on a scope that does not bind the name has just rewritten the
\* binding held by a proper ancestor
C1_Witness ==
    /\ last.op = "define"
    /\ result.k = "ok"
    /\ LET key == NormalizeName(last.name)
           T == NearestBinder(envs, last.scope, key)
       IN  /\ T # 0
           /\ T # last.scope
           /\ envs[T].values[key] = last.value
           /\ key \notin envs[T].consts

\* the binding an operation reaches: for assign_at the scope at the given
\* distance when it binds the name, otherwise the nearest binder
Reached(E, op) ==
    LET key == NormalizeName(op.name)
        a == Ancestor(E, op.scope, op.distance)
    IN  IF op.op = "assign_at" /\ a # 0 /\ Binds(E, a, key)
        THEN a
        ELSE NearestBinder(E, op.scope, key)

\* C8: a constant binding never changes; assign, assign_at and a
\* non-constant define that reach it raise RuntimeError and change no scope.
C8_ConstantsFrozen ==
    [][ /\ \A e \in 1..Len(envs) : \A key \in envs[e].consts :
              /\ key \in envs'[e].consts
              /\ envs'[e].values[key] = envs[e].values[key]
        /\ ( /\ last'.op \in {"define", "assign", "assign_at"}
             /\ ~last'.constant
             /\ Reached(envs, last') # 0
             /\ NormalizeName(last'.name) \in envs[Reached(envs, last')].consts )
           => /\ result'.k = "error"
              /\ result'.cls = "RuntimeError"
              /\ envs' = envs
      ]_vars

\* an assign_at that skips a non-constant shadow and reaches a user-made
\* constant of an ancestor has just been rejected
C8_Witness ==
    /\ last.op = "assign_at"
    /\ last.distance > 0
    /\ result.k = "error"
    /\ result.cls = "RuntimeError"
    /\ LET key == NormalizeName(last.name)
       IN  /\ key = <<"x">>
           /\ Reached(envs, last) # last.scope
           /\ key \in envs[Reached(envs, last)].consts

-----------------------------------------------------------------------------
(* The interpreter machine: Runtime.run on one Program.  Interpreter.run    *)
(* first declares the program's hoisted functions, then executes its        *)
(* top-level statements in order; Runtime.run turns a Return that escapes   *)
(* into the program's value.                                                *)

\* a program with hoisted functions and classes
ProgramWithClasses(functions, classes, statements) ==
    [functions |-> functions, classes |-> classes, statements |-> statements]

\* a program without classes
Program(functions, statements) == ProgramWithClasses(functions, <<>>, statements)

Outcome(r) == [k |-> r.k, v |-> r.v, cls |-> r.cls]

\* Runtime() and Interpreter(runtime) for a program drawn from the pool P
RunInit(P) ==
    /\ program \in P
    /\ envs = Child(RuntimeInit, 1)
    /\ heap = <<>>
    /\ env = 2
    /\ output = <<>>
    /\ status = "loading"
    /\ result = Outcome(Value(0, NULL))
    /\ last = NoNode
    /\ nsteps = 0
    /\ lexer = NoLexer
    /\ main = NoMain
    /\ Unused

\* how Runtime.run goes on after a top-level step with outcome r
StatusAfter(r) ==
    CASE r.k = "value" -> "running"
      [] r.k = "return" -> "returned"
      [] OTHER -> "error"

Commit(r) ==
    /\ envs' = r.m.envs
    /\ heap' = r.m.heap
    /\ env' = r.m.env
    /\ output' = r.m.output
    /\ status' = StatusAfter(r)

RECURSIVE DeclareFunctions(_, _, _)
DeclareFunctions(fns, i, m) ==
    IF i > Len(fns) THEN Value(m, NULL)
    ELSE Then(DeclareFunction(fns[i], m), LAMBDA d : DeclareFunctions(fns, i + 1, d.m))

RECURSIVE DeclareClasses(_, _, _)
DeclareClasses(classes, i, m) ==
    IF i > Len(classes) THEN Value(m, NULL)
    ELSE Then(DeclareClass(classes[i], m), LAMBDA d : DeclareClasses(classes, i + 1, d.m))

\* `for fn in program.functions: self._declare_function(fn)`, then
\* `for cls in program.classes: self._declare_class(cls)`
Load ==
    /\ status = "loading"
    /\ Commit(Then(DeclareFunctions(program.functions, 1, Machine(envs, heap, env, output)),
                   LAMBDA f : DeclareClasses(program.classes, 1, f.m)))
    /\ UNCHANGED <<result, last, nsteps, program, main, memory, ledger, parser, lexer>>

\* the outcome r of the top-level statement stmt becomes the state
Record(stmt, r) ==
    /\ Commit(r)
    /\ result' = Outcome(r)
    /\ last' = stmt

\* `last = self._execute(stmt)` for the next top-level statement
Step ==
    /\ status = "running"
    /\ nsteps < Len(program.statements)
    /\ Record(program.statements[nsteps + 1],
              Execute(program.statements[nsteps + 1], Machine(envs, heap, env, output)))
    /\ nsteps' = nsteps + 1
    /\ UNCHANGED <<program, main, memory, ledger, parser, lexer>>

\* `return last`
Finish ==
    /\ status = "running"
    /\ nsteps = Len(program.statements)
    /\ status' = "finished"
    /\ UNCHANGED <<envs, heap, env, output, result, last, nsteps, program, main, memory, ledger, parser, lexer>>

Next == Load \/ Step \/ Finish

-----------------------------------------------------------------------------
(* Binary operators: every program `l op r;` over small operands *)

BinaryOperators ==
    {"EQ", "NE", "GT", "LT", "GE", "LE", "AND", "OR",
     "PLUS", "MINUS", "STAR", "SLASH", "PERCENT", "CARET"}

BinaryOperands ==
    {Literal(NULL), Literal(BoolValue(FALSE)), Literal(BoolValue(TRUE)),
     Literal(FloatValue(0, 1)), Literal(FloatValue(1, 2)), Literal(FloatValue(-3, 2)),
     Literal(StringValue(<<>>)), Literal(StringValue(<<"a">>)),
     ArrayLiteral(<<>>), ArrayLiteral(<<Literal(IntValue(0))>>)}
    \cup { Literal(IntValue(n)) : n \in (-MaxInt)..MaxInt }

BinaryPrograms ==
    { Program(<<>>, <<ExpressionStatement(BinaryOperation(l, op, r))>>) :
        l \in BinaryOperands, op \in BinaryOperators, r \in BinaryOperands }

SpecBinary == RunInit(BinaryPrograms) /\ [][Next]_vars

\* an Int or Float literal
IsNumberLiteral(node) == node.t = "Literal" /\ node.value.t \in {"Int", "Float"}
\* the literal 0 or 0.0
IsZeroLiteral(node) == IsNumberLiteral(node) /\ ToNumber(node.value).n = 0

\* C9: `/` and `%` with the number zero on the right raise an error of the
\* DivisionByZeroError kind whatever the left operand is, and `+`, `-`, `*`,
\* `^` on numbers do not raise when an operand is zero.
C9_DivisionByZeroKind ==
    (nsteps = 1 /\ last.t = "ExpressionStatement"
                /\ last.expression.t = "BinaryOperation") =>
        LET e == last.expression
        IN  /\ (e.operator \in {"SLASH", "PERCENT"} /\ IsZeroLiteral(e.right))
                  => (result.k = "error" /\ result.cls = "DivisionByZeroError")
            /\ ( /\ e.operator \in {"PLUS", "MINUS", "STAR", "CARET"}
                 /\ IsNumberLiteral(e.left) /\ IsNumberLiteral(e.right)
                 /\ (IsZeroLiteral(e.left) \/ IsZeroLiteral(e.right)) )
                  => result.k = "value"

-----------------------------------------------------------------------------
(* Index reads: every program `$a = <container>; $a[i];` *)

IndexElements == { IntValue(1), IntValue(2) }
IndexChars == { "a", "b" }

SeqsUpTo(S, n) == UNION { [1..k -> S] : k \in 0..n }

LiteralsOf(elems) == [ i \in 1..Len(elems) |-> Literal(elems[i]) ]

IndexContainers ==
    { ArrayLiteral(LiteralsOf(elems)) : elems \in SeqsUpTo(IndexElements, MaxLen) }
    \cup { Literal(StringValue(chars)) : chars \in SeqsUpTo(IndexChars, MaxLen) }

IndexIndices == (-(MaxLen + 2))..(MaxLen + 2)

IndexPrograms ==
    { Program(<<>>,
              <<ExpressionStatement(Assignment(Variable(<<"$", "a">>), "EQUAL", c)),
                ExpressionStatement(IndexAccess(Variable(<<"$", "a">>),
                                                Literal(IntValue(i))))>>) :
        c \in IndexContainers, i \in IndexIndices }

SpecIndex == RunInit(IndexPrograms) /\ [][Next]_vars

\* the elements of the container bound to $a: array elements, or the
\* one-character strings of a string
ContainerItems(E, H) ==
    LET a == E[2].values[<<"a">>]
    IN  IF a.t = "Array" THEN H[a.ref].elements
        ELSE [ j \in 1..Len(a.v) |-> StringValue(<<a.v[j]>>) ]

\* C10: reading index i of an array or string of length n yields element i
\* for 0 <= i < n, element n + i for -n <= i < 0, raises IndexError for any
\* other integer i, and never changes the container.
C10_IndexRead ==
    [][ (status = "running" /\ nsteps = 1 /\ nsteps' = 2
           /\ last'.expression.t = "IndexAccess") =>
          LET items == ContainerItems(envs, heap)
              n == Len(items)
              i == last'.expression.index.value.v
          IN  /\ envs' = envs
              /\ heap' = heap
              /\ (0 <= i /\ i < n) =>
                    (result'.k = "value" /\ result'.v = items[i + 1])
              /\ (-n <= i /\ i < 0) =>
                    (result'.k = "value" /\ result'.v = items[n + i + 1])
              /\ (i >= n \/ i < -n) =>
                    (result'.k = "error" /\ result'.cls = "IndexError")
      ]_vars

\* the last element of a three-element array has been read through index -1
C10_Witness ==
    /\ nsteps = 2
    /\ last.t = "ExpressionStatement"
    /\ last.expression.t = "IndexAccess"
    /\ last.expression.index.value.v = -1
    /\ envs[2].values[<<"a">>].t = "Array"
    /\ Len(ContainerItems(envs, heap)) = 3
    /\ result.k = "value"
    /\ result.v = ContainerItems(envs, heap)[3]

-----------------------------------------------------------------------------
(* Program text used by the program pools below *)

Num(n) == Literal(IntValue(n))
Str(chars) == Literal(StringValue(chars))
Var(c) == Variable(<<"$", c>>)
\* `$c = e;`
Set(c, e) == ExpressionStatement(Assignment(Var(c), "EQUAL", e))
\* `callee(arguments)` and the statement `callee(arguments);`
Call(callee, arguments) == CallExpression(callee, arguments)
Do(e) == ExpressionStatement(e)
\* `print("c");`: leaves the mark c in the output
Mark(c) == Do(Call(Variable(<<"p", "r", "i", "n", "t">>), <<Str(<<c>>)>>))
\* a lambda without parameters and with a block body
Lambda(statements) == LambdaExpression(<<>>, Block(statements))
\* a hoisted function named by one letter
Function(c, parameters, statements) ==
    FunctionDeclaration(<<c>>, parameters, Block(statements))
Named(c) == Variable(<<c>>)

\* all sequences of exactly n elements of S
SeqsOf(S, n) == [1..n -> S]

\* the marks c in an output
RECURSIVE Count(_, _)
Count(out, c) ==
    IF out = <<>> THEN 0
    ELSE (IF out[1] = StringValue(<<c>>) THEN 1 ELSE 0) + Count(Tail(out), c)

-----------------------------------------------------------------------------
(* Closures: two hoisted functions and a lambda created in the top scope,   *)
(* and two lambdas created in one call of m(), called in every order        *)

MaxCalls == 3       \* top-level statements after the prologue of a closure program
MaxDepth == 2       \* statements nested around the Return of a return program

\* function s($v) { $x = $v; }   function i() { $x = $x + 1; }
\* function m() { $n = 0; $a = [fn() { $n = $n + 1; }, fn() { return $n; }];
\*                $n = 5; return $a; }
ClosureFunctions ==
    << Function("s", << <<"$", "v">> >>, <<Set("x", Var("v"))>>),
       Function("i", <<>>, <<Set("x", BinaryOperation(Var("x"), "PLUS", Num(1)))>>),
       Function("m", <<>>,
                << Set("n", Num(0)),
                   Set("a", ArrayLiteral(
                       << Lambda(<<Set("n", BinaryOperation(Var("n"), "PLUS", Num(1)))>>),
                          Lambda(<<ReturnStatement(Var("n"))>>) >>)),
                   Set("n", Num(5)),
                   ReturnStatement(Var("a")) >>) >>

\* $x = 0; $g = fn() { return $x; }; $p = m();
ClosurePrologue ==
    << Set("x", Num(0)),
       Set("g", Lambda(<<ReturnStatement(Var("x"))>>)),
       Set("p", Call(Named("m"), <<>>)) >>

WriteX(n) == Set("x", Num(n))                           \* $x = n;
CallS(n) == Do(Call(Named("s"), <<Num(n)>>))             \* s(n);
CallI == Do(Call(Named("i"), <<>>))                      \* i();
CallG == Do(Call(Var("g"), <<>>))                        \* $g();
CallBump == Do(Call(IndexAccess(Var("p"), Num(0)), <<>>)) \* $p[0]();
CallPeek == Do(Call(IndexAccess(Var("p"), Num(1)), <<>>)) \* $p[1]();

ClosureStatements == {WriteX(1), WriteX(2), CallS(3), CallI, CallG, CallBump, CallPeek}

ClosurePrograms ==
    { Program(ClosureFunctions, ClosurePrologue \o calls) :
        calls \in SeqsOf(ClosureStatements, MaxCalls) }

SpecClosure == RunInit(ClosurePrograms) /\ [][Next]_vars

\* the value of $x that the writes among the first n statements leave
RECURSIVE WrittenX(_, _)
WrittenX(stmts, n) ==
    IF n = 0 THEN 0
    ELSE LET st == stmts[n]
             before == WrittenX(stmts, n - 1)
         IN  CASE st = Set("x", Num(0)) -> 0
               [] st = WriteX(1) -> 1
               [] st = WriteX(2) -> 2
               [] st = CallS(3) -> 3
               [] st = CallI -> before + 1
               [] OTHER -> before

\* the value of $n of the call of m() after the first n statements: the 5
\* written after the lambdas were made, and one more for each $p[0]()
RECURSIVE WrittenN(_, _)
WrittenN(stmts, n) ==
    IF n = 0 THEN 5
    ELSE WrittenN(stmts, n - 1) + (IF stmts[n] = CallBump THEN 1 ELSE 0)

\* C2: closures created in one scope share it by reference: a read by one
\* closure yields the last value written to the shared variable, whether a
\* sibling closure or the defining scope itself wrote it.
C2_SharedByReference ==
    (status # "loading" /\ nsteps > Len(ClosurePrologue)) =>
        /\ status # "error"
        /\ last = CallG =>
              result = Outcome(Value(0, IntValue(WrittenX(program.statements, nsteps))))
        /\ last = CallPeek =>
              result = Outcome(Value(0, IntValue(WrittenN(program.statements, nsteps))))

\* $g() has read the 4 that i() made of the 3 that s(3) wrote, and $p[1]()
\* has read a $n that $p[0]() incremented
C2_Witness ==
    /\ nsteps = Len(ClosurePrologue) + 3
    /\ \/ /\ program.statements[nsteps - 2] = CallS(3)
          /\ program.statements[nsteps - 1] = CallI
          /\ last = CallG
          /\ result.v = IntValue(4)
       \/ /\ program.statements[nsteps - 2] = WriteX(2)
          /\ program.statements[nsteps - 1] = CallBump
          /\ last = CallPeek
          /\ result.v = IntValue(6)

-----------------------------------------------------------------------------
(* Name resolution in calls: functions whose bodies read names that the     *)
(* caller, the closure or the top scope may bind                            *)

\* function g() { return $y; }       function c() { $y = 1; return g(); }
\* function k($y) { return $y; }
\* function h() { $w = 4; return fn() { return $w + $z; }; }
ScopeFunctions ==
    << Function("g", <<>>, <<ReturnStatement(Var("y"))>>),
       Function("c", <<>>, <<Set("y", Num(1)), ReturnStatement(Call(Named("g"), <<>>))>>),
       Function("k", << <<"$", "y">> >>, <<ReturnStatement(Var("y"))>>),
       Function("h", <<>>,
                << Set("w", Num(4)),
                   ReturnStatement(Lambda(
                       <<ReturnStatement(BinaryOperation(Var("w"), "PLUS", Var("z")))>>)) >>) >>

\* $z = 10; $f = h();
ScopePrologue == << Set("z", Num(10)), Set("f", Call(Named("h"), <<>>)) >>

BindY == Set("y", Num(7))                                 \* $y = 7;
CallG0 == Do(Call(Named("g"), <<>>))                       \* g();
CallC == Do(Call(Named("c"), <<>>))                        \* c();
BlockG == Block(<<Set("y", Num(1)), CallG0>>)              \* { $y = 1; g(); }
CallK == Do(Call(Named("k"), <<Num(9)>>))                  \* k(9);
CallF == Do(Call(Var("f"), <<>>))                          \* $f();
BlockF == Block(<<Set("w", Num(50)), CallF>>)              \* { $w = 50; $f(); }

ScopeStatements == {BindY, CallG0, CallC, BlockG, CallK, CallF, BlockF}

ScopePrograms ==
    { Program(ScopeFunctions, ScopePrologue \o calls) :
        calls \in SeqsOf(ScopeStatements, MaxCalls) }

SpecScope == RunInit(ScopePrograms) /\ [][Next]_vars

\* C3: a name read in a function body resolves through the call scope, the
\* closure and the closure's ancestors, never through the caller: with $y
\* bound by the caller only, g() raises NameError; $w and $z come from the
\* closure of $f and its ancestor whatever the caller binds.
C3_LexicalResolution ==
    [][ (status = "running" /\ nsteps >= Len(ScopePrologue) /\ nsteps' = nsteps + 1) =>
          LET y == GetOptional(envs, 2, <<"y">>)
              NameErr == result'.k = "error" /\ result'.cls = "NameError"
          IN  /\ last' \in {CallC, BlockG} =>
                    IF y.k = "ok" THEN result' = Outcome(Value(0, IntValue(1))) ELSE NameErr
              /\ last' = CallG0 =>
                    IF y.k = "ok" THEN result' = Outcome(Value(0, y.v)) ELSE NameErr
              /\ last' = CallK => result' = Outcome(Value(0, IntValue(9)))
              /\ last' \in {CallF, BlockF} => result' = Outcome(Value(0, IntValue(14)))
      ]_vars

\* c() has bound $y in its own call scope and its call of g() has raised
\* NameError
C3_Witness ==
    /\ last = CallC
    /\ result.k = "error"
    /\ result.cls = "NameError"
    /\ GetOptional(envs, 2, <<"y">>).k = "none"
    /\ \E e \in 3..Len(envs) :
          /\ envs[e].parent = 2
          /\ <<"y">> \in DOMAIN envs[e].values
          /\ envs[e].values[<<"y">>] = IntValue(1)

-----------------------------------------------------------------------------
(* try / catch: a try block that raises each kind of error, directly, in a  *)
(* nested block, in a called function and in a loop                         *)

\* the statements that raise: `$q;`  `1 / 0;`  `1 % 0;`  `[1][5];`
\* `{"a": 1}["b"];`  `throw "x";`  `1();`
RaiseNameError == Do(Var("q"))
RaiseDivision == Do(BinaryOperation(Num(1), "SLASH", Num(0)))
RaiseModulo == Do(BinaryOperation(Num(1), "PERCENT", Num(0)))
RaiseIndexError == Do(IndexAccess(ArrayLiteral(<<Num(1)>>), Num(5)))
RaiseKeyError ==
    Do(IndexAccess(HashLiteral(<<HashPair(Str(<<"a">>), Num(1))>>), Str(<<"b">>)))
Throw == ThrowStatement(Str(<<"x">>))
RaiseNotCallable == Do(Call(Num(1), <<>>))

Raisers ==
    {RaiseNameError, RaiseDivision, RaiseModulo, RaiseIndexError, RaiseKeyError,
     Throw, RaiseNotCallable}

\* where the raising statement e stands in the try block
Placements(e) ==
    { <<e>>,
      <<Block(<<e>>)>>,
      <<Do(Call(Lambda(<<e>>), <<>>))>>,
      <<WhileStatement(Literal(BoolValue(TRUE)), Block(<<e>>))>> }

\* catch { print("C"); }, with and without a variable, alone or followed by
\* a second clause catch { print("D"); }
CatchLists ==
    { <<CatchClause(NoNode, Block(<<Mark("C")>>))>>,
      <<CatchClause(Token(<<"$", "E">>), Block(<<Mark("C")>>))>>,
      <<CatchClause(Token(<<"e">>), Block(<<Mark("C")>>)),
        CatchClause(NoNode, Block(<<Mark("D")>>))>> }

Finallies == { NoNode, Block(<<Mark("F")>>) }

\* try { print("T"); <raise> } catch ... [finally { print("F"); }]  print("A");
CatchPrograms ==
    { Program(<<>>, << TryCatchStatement(Block(<<Mark("T")>> \o body), catches, fin),
                       Mark("A") >>) :
        body \in UNION { Placements(e) : e \in Raisers },
        catches \in CatchLists, fin \in Finallies }

SpecCatch == RunInit(CatchPrograms) /\ [][Next]_vars

\* C5: whatever the kind of the error that leaves the try block, the first
\* catch clause runs (and no other), and the error does not leave the try
\* statement.
C5_FirstCatchRuns ==
    nsteps >= 1 =>
        /\ status # "error"
        /\ Count(output, "C") = 1
        /\ Count(output, "D") = 0

-----------------------------------------------------------------------------
(* try / finally: every way out of a try statement with a finally block,    *)
(* at the top level, in a loop and in a function                            *)

\* the rest of the try block after print("T")
TryBodies ==
    { <<>>, <<Throw>>, <<RaiseNameError>>, <<ReturnStatement(Num(1))>>,
      <<BreakStatement>>, <<ContinueStatement>> }

\* no catch clause, one that ends normally, one that raises, one that
\* returns, one that breaks
FinallyCatchLists ==
    { <<>>,
      <<CatchClause(NoNode, Block(<<Mark("C")>>))>>,
      <<CatchClause(NoNode, Block(<<Mark("C"), Throw>>))>>,
      <<CatchClause(NoNode, Block(<<Mark("C"), ReturnStatement(Num(2))>>))>>,
      <<CatchClause(NoNode, Block(<<Mark("C"), BreakStatement>>))>> }

\* try { print("T"); ... } catch ... finally { print("F"); }
FinallyStatements ==
    { TryCatchStatement(Block(<<Mark("T")>> \o body), catches, Block(<<Mark("F")>>)) :
        body \in TryBodies, catches \in FinallyCatchLists }

\* the statement st followed by print("A"): at the top level, in the body
\* of a foreach over "ab", and in the body of a called lambda
FinallyContexts(st) ==
    { <<st, Mark("A")>>,
      <<ForeachStatement(<<"$", "c">>, Str(<<"a", "b">>), Block(<<st, Mark("A")>>))>>,
      <<Do(Call(Lambda(<<st, Mark("A")>>), <<>>))>> }

FinallyPrograms ==
    { Program(<<>>, stmts) : stmts \in UNION { FinallyContexts(st) : st \in FinallyStatements } }

SpecFinally == RunInit(FinallyPrograms) /\ [][Next]_vars

\* whether the marks out[i..] continue a run of try statements whose last
\* mark was q: "A" (between statements), "T", "C" or "F".  Each "T" is
\* followed by at most one "C" and then exactly one "F"; "A" only follows "F".
RECURSIVE OnceEach(_, _, _)
OnceEach(out, i, q) ==
    IF i > Len(out) THEN q \in {"A", "F"}
    ELSE LET c == out[i].v[1]
         IN  /\ CASE q = "A" -> c = "T"
                  [] q = "T" -> c \in {"C", "F"}
                  [] q = "C" -> c = "F"
                  [] q = "F" -> c \in {"A", "T"}
             /\ OnceEach(out, i + 1, c)

\* C6: the finally block runs exactly once per execution of its try
\* statement on every exit path, after the try and catch blocks and before
\* the statement is left.
C6_FinallyOnce == OnceEach(output, 1, "A")

\* the catch block has raised, the finally block has run after it, and the
\* error has left the statement
C6_Witness ==
    /\ output = <<StringValue(<<"T">>), StringValue(<<"C">>), StringValue(<<"F">>)>>
    /\ status = "error"
    /\ result.cls = "RuntimeError"

-----------------------------------------------------------------------------
(* Return: `return 1;` nested in blocks, ifs, loops, switches, try          *)
(* statements and inner calls, in a function body and at the top level.     *)
(* A nest n is the statement n.stmt together with what becomes of the       *)
(* Return on its way out of it:                                             *)
(*   n.claimed  "return" if no call inside the statement encloses the       *)
(*              Return, "done" if an inner call does (its result is         *)
(*              printed);                                                   *)
(*   n.lost     a finally block that the Return passes ends with a signal   *)
(*              of its own;                                                 *)
(*   n.plain    no such finally block stands anywhere in the statement.     *)

True == Literal(BoolValue(TRUE))
False == Literal(BoolValue(FALSE))
Less(c, n) == BinaryOperation(Var(c), "LT", Num(n))
Increment(c) == Assignment(Var(c), "EQUAL", BinaryOperation(Var(c), "PLUS", Num(1)))
Empty == Block(<<>>)

\* the statements that keep the Return of x in flight
PlainWraps(x) ==
    { Block(<<x>>),
      IfStatement(True, x, <<>>, NoNode),
      IfStatement(False, Empty, <<ElseIf(False, Empty), ElseIf(True, x)>>, NoNode),
      IfStatement(False, Empty, <<>>, x),
      ForStatement(NoNode, NoNode, NoNode, Block(<<x, BreakStatement>>)),
      WhileStatement(True, Block(<<x, BreakStatement>>)),
      DoWhileStatement(x, False),
      ForeachStatement(<<"$", "c">>, Str(<<"a", "b">>), x),
      SwitchStatement(Num(1), <<CaseClause(<<Num(0), Num(1)>>, Block(<<x>>))>>, NoNode),
      SwitchStatement(Num(2), <<CaseClause(<<Num(1)>>, Empty)>>, DefaultCase(Block(<<x>>))),
      TryCatchStatement(Block(<<x>>), <<CatchClause(NoNode, Empty)>>, Block(<<Mark("F")>>)),
      TryCatchStatement(Block(<<Throw>>), <<CatchClause(NoNode, Block(<<x>>))>>, NoNode) }

\* print((fn() { x })());
CallWrap(x) ==
    Do(Call(Variable(<<"p", "r", "i", "n", "t">>), <<Call(Lambda(<<x>>), <<>>)>>))

\* try { x } finally { return 3; }    while (true) { try { x } finally { break; } }
LosingWraps(x) ==
    { TryCatchStatement(Block(<<x>>), <<>>, Block(<<ReturnStatement(Num(3))>>)),
      WhileStatement(True,
          Block(<<TryCatchStatement(Block(<<x>>), <<>>, Block(<<BreakStatement>>))>>)) }

Nest(stmt, claimed, lost, plain) ==
    [stmt |-> stmt, claimed |-> claimed, lost |-> lost, plain |-> plain]

RECURSIVE ReturnNests(_)
ReturnNests(d) ==
    IF d = 0 THEN { Nest(ReturnStatement(Num(1)), "return", FALSE, TRUE) }
    ELSE LET inner == ReturnNests(d - 1)
         IN  inner
             \cup UNION { { Nest(st, n.claimed, n.lost, n.plain) : st \in PlainWraps(n.stmt) } :
                           n \in inner }
             \cup { Nest(CallWrap(n.stmt), "done", n.lost, n.plain) : n \in inner }
             \cup UNION { { Nest(st, n.claimed, n.lost \/ n.claimed = "return", FALSE) :
                              st \in LosingWraps(n.stmt) } : n \in inner }

Nests == ReturnNests(MaxDepth)

\* $r = (fn() { print("B"); <nest>; print("L"); return 2; })();  print("Z");
InFunction(n) ==
    Program(<<>>, << Set("r", Call(Lambda(<<Mark("B"), n.stmt, Mark("L"),
                                           ReturnStatement(Num(2))>>), <<>>)),
                     Mark("Z") >>)

\* print("B");  <nest>;  print("L");
AtTopLevel(n) == Program(<<>>, << Mark("B"), n.stmt, Mark("L") >>)

ReturnPrograms == { InFunction(n) : n \in Nests } \cup { AtTopLevel(n) : n \in Nests }

SpecReturn == RunInit(ReturnPrograms) /\ [][Next]_vars

\* the value of $r in the top scope is n
TopR(n) == <<"r">> \in DOMAIN envs[2].values /\ envs[2].values[<<"r">>] = IntValue(n)

RECURSIVE Printed(_, _)
Printed(out, v) == out # <<>> /\ (out[1] = v \/ Printed(Tail(out), v))

\* whether the program being run is a call of a function with a nest in its
\* body, and the nest of the program being run
IsInFunction == Len(program.statements) = 2
NestRun ==
    LET st == IF IsInFunction
              THEN program.statements[1].expression.value.callee.body.statements[2]
              ELSE program.statements[2]
    IN  CHOOSE n \in Nests : n.stmt = st

\* what the Return of nest n must have done once its statement has run
ReturnEnds(n) ==
    /\ (IsInFunction /\ nsteps >= 1) =>
          /\ n.claimed = "return" =>
                /\ status # "error"
                /\ TopR(1)
                /\ Count(output, "L") = 0
                /\ status = "finished" => Count(output, "Z") = 1
          /\ n.claimed = "done" => Printed(output, IntValue(1))
          /\ (n.claimed = "done" /\ n.plain) =>
                /\ TopR(2)
                /\ Count(output, "L") = 1
    /\ (~IsInFunction /\ nsteps >= 2) =>
          /\ n.claimed = "return" =>
                /\ status = "returned"
                /\ result = Outcome(Signal(0, "return", IntValue(1)))
                /\ nsteps = 2
                /\ Count(output, "L") = 0
          /\ n.claimed = "done" => Printed(output, IntValue(1))
          /\ (n.claimed = "done" /\ n.plain) =>
                (status = "finished" => Count(output, "L") = 1)

\* C4 as stated: a Return at any depth of blocks, ifs, loops, switches and
\* try statements ends exactly the innermost call with its payload as the
\* result, nothing later in that body runs, and at the top level it ends
\* Runtime.run with the payload.
C4_ReturnEndsCall == ReturnEnds(NestRun)

\* C4, amended: the same, for a Return that passes no finally block which
\* itself ends with a Return, Break, Continue or error.
C4_ReturnEndsCallUnlessFinallyExits == ~NestRun.lost => ReturnEnds(NestRun)

\* a Return inside a try statement inside a second construct has ended the
\* called function with 1 after the finally block ran, and the program went on
C4_Witness ==
    /\ status = "finished"
    /\ TopR(1)
    /\ output = <<StringValue(<<"B">>), StringValue(<<"F">>), StringValue(<<"Z">>)>>
    /\ IsInFunction
    /\ ~NestRun.lost
    /\ NestRun.claimed = "return"

-----------------------------------------------------------------------------
(* Break / Continue: a loop of each kind that would run its body twice,     *)
(* with a Break or a Continue between print("I") and print("X"): in the     *)
(* body itself, in an inner loop, and in the body of a called function      *)

\* the four loops with counter $c and body b, each in a block that first
\* sets $c = 0:  for (; $c < 2; $c = $c + 1) b     while (($c = $c + 1) <= 2) b
\*               do b while (($c = $c + 1) < 2)     foreach ($c in "ab") b
Loops(c, b) ==
    { Block(<<Set(c, Num(0)), loop>>) :
        loop \in { ForStatement(NoNode, Less(c, 2), Increment(c), Block(b)),
                   WhileStatement(BinaryOperation(Increment(c), "LE", Num(2)), Block(b)),
                   DoWhileStatement(Block(b), BinaryOperation(Increment(c), "LT", Num(2))),
                   ForeachStatement(<<"$", c>>, Str(<<"a", "b">>), Block(b)) } }

Exit(stmt, exit, where) == [stmt |-> stmt, exit |-> exit, where |-> where]

\* the statement e (a Break or a Continue) where it stands in the loop body
ExitsOf(e, exit) ==
    { Exit(st, exit, "same") :
        st \in { e,
                 IfStatement(True, Block(<<e>>), <<>>, NoNode),
                 TryCatchStatement(Block(<<e>>), <<>>, Block(<<Mark("F")>>)),
                 SwitchStatement(Num(1), <<CaseClause(<<Num(1)>>, Block(<<e>>))>>, NoNode) } }
    \cup { Exit(st, exit, "inner") : st \in Loops("j", <<Mark("J"), e, Mark("Y")>>) }
    \cup { Exit(Do(Call(Lambda(<<e>>), <<>>)), exit, "callee") }

Exits == ExitsOf(BreakStatement, "break") \cup ExitsOf(ContinueStatement, "continue")

\* <loop over { print("I"); <exit>; print("X"); }>  print("A");
LoopPrograms ==
    { Program(<<>>, <<loop, Mark("A")>>) :
        loop \in UNION { Loops("i", <<Mark("I"), x.stmt, Mark("X")>>) : x \in Exits } }

SpecLoop == RunInit(LoopPrograms) /\ [][Next]_vars

\* the exit statement of the program being run, with where it stands
ExitRun ==
    CHOOSE x \in Exits : x.stmt = program.statements[1].statements[2].body.statements[2]

\* every iteration of the outer loop ran from print("I") to print("X")
OuterUntouched == Count(output, "I") = 2 /\ Count(output, "X") = 2

\* C7, within one function body: a Break ends and a Continue resumes the
\* innermost enclosing loop and no other.
C7_InnermostLoop ==
    (nsteps >= 1 /\ ExitRun.where # "callee") =>
        /\ status # "error"
        /\ status = "finished" => Count(output, "A") = 1
        /\ ExitRun.where = "same" =>
              /\ Count(output, "X") = 0
              /\ Count(output, "I") = (IF ExitRun.exit = "break" THEN 1 ELSE 2)
        /\ ExitRun.where = "inner" =>
              /\ OuterUntouched
              /\ Count(output, "Y") = 0
              /\ Count(output, "J") = (IF ExitRun.exit = "break" THEN 2 ELSE 4)

\* C7, across a call: a Break or Continue in a function body that has no
\* loop around it neither ends nor resumes the loop the function was called
\* from: if the loop statement completes, each of its iterations ran to its end.
C7_CalleeLeavesLoop ==
    (nsteps >= 1 /\ ExitRun.where = "callee" /\ status # "error") => OuterUntouched

\* C7: Break and Continue act on the innermost loop of the same function
\* body only, and never on a loop of the caller.
C7_BreakContinueScope == C7_InnermostLoop /\ C7_CalleeLeavesLoop



-----------------------------------------------------------------------------
(* Switch: `switch (s) { case v(..), ..: print("A"); ... default: print("D"); }` *)
(* where v($n) prints its argument and returns it, so that the output shows  *)
(* every case value that was evaluated and every body that ran               *)

MaxCases == 2       \* case clauses of a switch program
MaxValues == 2      \* values of one case clause

\* function v($n) { print($n); return $n; }
SwitchFunctions ==
    << Function("v", << <<"$", "n">> >>,
                << Do(Call(Variable(<<"p", "r", "i", "n", "t">>), <<Var("n")>>)),
                   ReturnStatement(Var("n")) >>) >>

SwitchValues == {1, 2}
SwitchSubjects == {1, 2, 3}
BodyMarks == <<"A", "B", "C", "E", "F">>

\* the case clauses with the given lists of values, clause i marking BodyMarks[i]
CasesOf(vals) ==
    [ i \in 1..Len(vals) |->
        CaseClause([ j \in 1..Len(vals[i]) |-> Call(Named("v"), <<Num(vals[i][j])>>) ],
                   Block(<<Mark(BodyMarks[i])>>)) ]

SwitchValueLists == UNION { SeqsOf(SwitchValues, k) : k \in 1..MaxValues }

SwitchPrograms ==
    { Program(SwitchFunctions, <<SwitchStatement(Num(s), CasesOf(vals), d)>>) :
        s \in SwitchSubjects,
        vals \in UNION { SeqsOf(SwitchValueLists, k) : k \in 0..MaxCases },
        d \in { NoNode, DefaultCase(Block(<<Mark("D")>>)) } }

SpecSwitch == RunInit(SwitchPrograms) /\ [][Next]_vars

\* the value of value j of clause i of the switch being run, and its subject
CaseValue(i, j) == program.statements[1].cases[i].values[j].arguments[1].value.v
Subject == program.statements[1].expression.value.v
NumCases == Len(program.statements[1].cases)
NumValues(i) == Len(program.statements[1].cases[i].values)

\* clause i has a value equal to the subject
Matches(i) == \E j \in 1..NumValues(i) : CaseValue(i, j) = Subject

\* the marks of bodies in an output, and the case values printed by v
RECURSIVE BodiesRun(_)
BodiesRun(out) ==
    IF out = <<>> THEN <<>>
    ELSE (IF out[1].t = "String" THEN <<out[1].v[1]>> ELSE <<>>) \o BodiesRun(Tail(out))

RECURSIVE ValuesEvaluated(_)
ValuesEvaluated(out) ==
    IF out = <<>> THEN <<>>
    ELSE (IF out[1].t = "Int" THEN <<out[1].v>> ELSE <<>>) \o ValuesEvaluated(Tail(out))

\* the values of clauses 1..i in source order
RECURSIVE ValuesThrough(_)
ValuesThrough(i) ==
    IF i = 0 THEN <<>>
    ELSE ValuesThrough(i - 1) \o [ j \in 1..NumValues(i) |-> CaseValue(i, j) ]

\* C11: a switch runs at most one body: that of the first case clause with
\* a value equal to the subject; no value of a later clause is evaluated and
\* no later body runs; without a match the default body runs if present,
\* else nothing.
C11_SwitchFirstMatch ==
    (status = "running" /\ nsteps = 1) =>
        /\ result.k = "value"
        /\ Len(BodiesRun(output)) <= 1
        /\ \A i \in 1..NumCases :
              (Matches(i) /\ \A h \in 1..(i - 1) : ~Matches(h)) =>
                 /\ BodiesRun(output) = <<BodyMarks[i]>>
                 /\ output[Len(output)] = StringValue(<<BodyMarks[i]>>)
                 /\ \E n \in 1..NumValues(i) :
                       /\ CaseValue(i, n) = Subject
                       /\ \A h \in 1..(n - 1) : CaseValue(i, h) # Subject
                       /\ ValuesEvaluated(output) =
                             ValuesThrough(i - 1) \o [ j \in 1..n |-> CaseValue(i, j) ]
        /\ (\A i \in 1..NumCases : ~Matches(i)) =>
              /\ ValuesEvaluated(output) = ValuesThrough(NumCases)
              /\ BodiesRun(output) =
                    (IF Present(program.statements[1].default_case) THEN <<"D">> ELSE <<>>)

\* a switch whose first clause does not match, whose second clause matches
\* and which has a default clause, after it has run
C11_Witness ==
    /\ status = "running" /\ nsteps = 1
    /\ program.statements[1].t = "SwitchStatement"
    /\ NumCases = 2 /\ ~Matches(1) /\ Matches(2)
    /\ Present(program.statements[1].default_case)
    /\ BodiesRun(output) = <<"B">>

-----------------------------------------------------------------------------
(* Aliases: `$a = <container>; <slot of $a> = 1; $b = $a;` followed by any   *)
(* sequence of writes to and printed reads of the slot through $a and $b,   *)
(* the slot being element 0 of an array, key "k" of a hash or field f of an *)
(* instance                                                                  *)

MaxOps == 3         \* statements after the prologue of an alias program

AliasContainers ==
    { ArrayLiteral(<<Num(0)>>),
      HashLiteral(<<HashPair(Str(<<"k">>), Num(0))>>),
      NewExpression(<<"o", "b", "j", "e", "c", "t">>, <<>>) }

\* the slot of container kind c reached through variable x
Slot(c, x) ==
    CASE c.t = "ArrayLiteral" -> IndexAccess(Var(x), Num(0))
      [] c.t = "HashLiteral" -> IndexAccess(Var(x), Str(<<"k">>))
      [] c.t = "NewExpression" -> MemberAccess(Var(x), Token(<<"F">>))

AliasNames == {"a", "b"}
AliasWrites == {7, 8}

\* `<slot of $x> = n;` and `print(<slot of $x>);`
WriteSlot(c, x, n) == Do(Assignment(Slot(c, x), "EQUAL", Num(n)))
ReadSlot(c, x) == Do(Call(Variable(<<"p", "r", "i", "n", "t">>), <<Slot(c, x)>>))

AliasOps(c) ==
    { WriteSlot(c, x, n) : x \in AliasNames, n \in AliasWrites }
    \cup { ReadSlot(c, x) : x \in AliasNames }

AliasPrologue(c) == << Set("a", c), WriteSlot(c, "a", 1), Set("b", Var("a")) >>

AliasPrograms ==
    UNION { { Program(<<>>, AliasPrologue(c) \o ops) :
                ops \in UNION { SeqsOf(AliasOps(c), k) : k \in 0..MaxOps } } :
            c \in AliasContainers }

SpecAlias == RunInit(AliasPrograms) /\ [][Next]_vars

IsSlotWrite(stmt) == stmt.expression.t = "Assignment" /\ stmt.expression.target.t # "Variable"
IsSlotRead(stmt) == stmt.expression.t = "CallExpression"

\* the value of the latest write among the first n statements
RECURSIVE LastWritten(_, _)
LastWritten(stmts, n) ==
    IF IsSlotWrite(stmts[n]) THEN stmts[n].expression.value.value.v
    ELSE LastWritten(stmts, n - 1)

\* C12: after `$b = $a` on an Array, Hash or Instance, every read of the
\* slot through either name yields the value of the latest write made
\* through either name.
C12_AliasesShare ==
    (status # "loading" /\ nsteps > 3) =>
        /\ result.k = "value"
        /\ IsSlotRead(last) =>
              output[Len(output)] = IntValue(LastWritten(program.statements, nsteps))

\* a read through $a right after a write through $b, and the reverse
C12_Witness ==
    /\ status = "running" /\ nsteps = 3 + MaxOps
    /\ program.statements[4] = WriteSlot(program.statements[1].expression.value, "b", 7)
    /\ program.statements[5] = ReadSlot(program.statements[1].expression.value, "a")
    /\ program.statements[1].expression.value.t = "NewExpression"
    /\ output = <<IntValue(7)>>

-----------------------------------------------------------------------------
(* Logical operators: chains `t(1, x1) op t(2, x2) op ...` of -and / -or    *)
(* nested to the left, where t($i, $n) prints $i and returns $n             *)

MaxTerms == 3       \* operands of a logical chain

LogicalFunctions ==
    << Function("t", << <<"$", "i">>, <<"$", "n">> >>,
                << Do(Call(Variable(<<"p", "r", "i", "n", "t">>), <<Var("i")>>)),
                   ReturnStatement(Var("n")) >>) >>

LogicalOperands ==
    { NULL, BoolValue(FALSE), BoolValue(TRUE), IntValue(0), StringValue(<<"a">>) }

Term(i, v) == Call(Variable(<<"t">>), <<Num(i), Literal(v)>>)

\* the chain over the first k operands of vals, joined by ops
RECURSIVE LogicalChain(_, _, _)
LogicalChain(vals, ops, k) ==
    IF k = 1 THEN Term(1, vals[1])
    ELSE BinaryOperation(LogicalChain(vals, ops, k - 1), ops[k - 1], Term(k, vals[k]))

LogicalPrograms ==
    UNION { { Program(LogicalFunctions, <<ExpressionStatement(LogicalChain(vals, ops, k))>>) :
                vals \in SeqsOf(LogicalOperands, k), ops \in SeqsOf({"AND", "OR"}, k - 1) } :
            k \in 2..MaxTerms }

SpecLogical == RunInit(LogicalPrograms) /\ [][Next]_vars

\* the number of operands of a chain
RECURSIVE Terms(_)
Terms(expr) == IF expr.t = "BinaryOperation" THEN Terms(expr.left) + 1 ELSE 1

\* the truth of a chain's value: of the operand itself, or the combination
\* of the truth of both sides
RECURSIVE Truth(_)
Truth(expr) ==
    IF expr.t # "BinaryOperation" THEN IsTruthy(expr.arguments[2].value)
    ELSE IF expr.operator = "AND" THEN Truth(expr.left) /\ Truth(expr.right)
    ELSE Truth(expr.left) \/ Truth(expr.right)

\* C13: `a -and b` and `a -or b` evaluate both operands exactly once, the
\* left one first, whatever the left one's truth, and yield the Bool
\* combination of the operands' truth.
C13_BothOperandsEvaluated ==
    (status = "running" /\ nsteps = 1) =>
        /\ output = [ i \in 1..Terms(last.expression) |-> IntValue(i) ]
        /\ result = [k |-> "value", v |-> BoolValue(Truth(last.expression)), cls |-> result.cls]

\* a false left operand of -and and a true left operand of -or, the right
\* operand evaluated all the same
C13_Witness ==
    /\ status = "running" /\ nsteps = 1
    /\ last.expression.left.t = "CallExpression"
    /\ \/ last.expression.operator = "AND" /\ ~Truth(last.expression.left)
       \/ last.expression.operator = "OR" /\ Truth(last.expression.left)
    /\ output = <<IntValue(1), IntValue(2)>>

-----------------------------------------------------------------------------
(* Construction: a class C whose constructor stores each parameter in the    *)
(* field of its name, and the program `$x = new C(args); $y = C(args);`      *)

MaxParams == 2      \* constructor parameters besides this/self
MaxArgs == 2        \* arguments of a construction

ConstructorNames ==
    { <<"c", "o", "n", "s", "t", "r", "u", "c", "t", "o", "r">>,
      <<"_", "_", "i", "n", "i", "t", "_", "_">>, <<"C">> }

\* a leading receiver parameter, or none
Receivers == { <<>>, << <<"t", "h", "i", "s">> >>, << <<"s", "e", "l", "f">> >> }

ParameterLetters == <<"a", "b", "c", "d">>

\* the parameters $a, $b, ... of a constructor with n of them
Parameters(n) == [ i \in 1..n |-> <<"$", ParameterLetters[i]>> ]

\* `$this.a = $a;` for each of n parameters
StoreParameters(n) ==
    [ i \in 1..n |->
        Do(Assignment(MemberAccess(Variable(<<"$", "t", "h", "i", "s">>), Token(<<ParameterLetters[i]>>)), "EQUAL",
                      Var(ParameterLetters[i]))) ]

ConstructorEnds == { <<>>, <<ReturnStatement(Num(9))>> }

ConstructedClass(name, receiver, n, end) ==
    ClassDeclaration(<<"C">>,
        << FunctionDeclaration(name, receiver \o Parameters(n),
                               Block(StoreParameters(n) \o end)) >>)

\* the arguments 1, 2, ... of a construction with n of them
Arguments(n) == [ i \in 1..n |-> Num(i) ]

ConstructPrograms ==
    { ProgramWithClasses(<<>>, <<ConstructedClass(name, receiver, n, end)>>,
          << Set("x", NewExpression(<<"C">>, Arguments(k))),
             Set("y", Call(Variable(<<"C">>), Arguments(k))) >>) :
        name \in ConstructorNames, receiver \in Receivers, n \in 0..MaxParams,
        end \in ConstructorEnds, k \in 0..MaxArgs }

SpecConstruct == RunInit(ConstructPrograms) /\ [][Next]_vars

\* the instances of the heap, in the order of their creation
Instances == SelectSeq(heap, LAMBDA o : o.kind = "Instance")

\* C14: `new C(args)` and `C(args)` construct alike: after both have run,
\* both have yielded an instance and the two instances have equal fields.
C14_SameConstruction ==
    (status # "loading" /\ nsteps = 2) =>
        /\ result.k = "value"
        /\ Instances[1].fields = Instances[2].fields

\* `new C(args)` has run: its instance holds the arguments, Null for a
\* parameter without argument
NewBindsInOrder ==
    (status # "loading" /\ nsteps >= 1) =>
        LET params == SelectSeq(program.classes[1].members[1].parameters,
                                LAMBDA p : ~IsThisOrSelf(p))
            args == program.statements[1].expression.value.arguments
        IN  Instances[1].fields =
                [ f \in { <<params[i][2]>> : i \in 1..Len(params) } |->
                    LET i == CHOOSE j \in 1..Len(params) : <<params[j][2]>> = f
                    IN  IF i <= Len(args) THEN args[i].value ELSE NULL ]

-----------------------------------------------------------------------------
(* The lexer (src/lexer).  A source is a sequence of characters, each a     *)
(* one-character string; NoChar is Python's None where the Scanner returns  *)
(* it.  L is the Lexer with its Scanner: the fields of `lexer`.  Line and   *)
(* column numbers and the Scanner's nesting depths are written but never    *)
(* read by the lexer, and are left out.                                     *)

NoChar == ""
\* the backquote character, which a TLA+ string cannot hold
Backtick == "BACKQUOTE"
DigitChars == <<"0", "1", "2", "3", "4", "5", "6", "7", "8", "9">>
Digits == { DigitChars[i] : i \in 1..10 }
Letters == { UpperLetters[i] : i \in 1..26 } \cup { LowerLetters[i] : i \in 1..26 }

\* str.isspace, str.isdigit, str.isalpha on the characters of the model
IsSpace(c) == c \in {" ", "\n", "\t", "\r"}
IsDigit(c) == c \in Digits
IsAlpha(c) == c \in Letters
\* Scanner.is_letter_or_digit: `isalnum() or == '_'`
LetterOrDigit == Letters \cup Digits \cup {"_"}

\* Token.literal: None, a str, an int, a bool or a float (kept as its text)
LitNone == [py |-> "None"]
LitStr(s) == [py |-> "str", v |-> s]
LitInt(n) == [py |-> "int", v |-> n]
LitBool(b) == [py |-> "bool", v |-> b]
LitFloat(s) == [py |-> "float", v |-> s]

SINGLE_CHAR_OPERATORS ==
   "+" :> "PLUS" @@ "-" :> "MINUS" @@ "*" :> "STAR" @@ "/" :> "SLASH"
    @@ "%" :> "PERCENT" @@ "^" :> "CARET" @@ "&" :> "AMPERSAND"
    @@ "|" :> "PIPE" @@ "~" :> "TILDE" @@ "=" :> "EQUAL" @@ "(" :> "LPAREN"
    @@ ")" :> "RPAREN" @@ "[" :> "LBRACKET" @@ "]" :> "RBRACKET"
    @@ "{" :> "LBRACE" @@ "}" :> "RBRACE" @@ "." :> "DOT" @@ "," :> "COMMA"
    @@ ":" :> "COLON" @@ ";" :> "SEMICOLON" @@ "@" :> "AT" @@ "#" :> "HASH"
    @@ "?" :> "QUESTION" @@ "<" :> "LT" @@ ">" :> "GT"

MULTI_CHAR_OPERATORS ==
   <<"-", "e", "q">> :> "EQ" @@ <<"-", "n", "e">> :> "NE"
    @@ <<"-", "g", "t">> :> "GT" @@ <<"-", "l", "t">> :> "LT"
    @@ <<"-", "g", "e">> :> "GE" @@ <<"-", "l", "e">> :> "LE"
    @@ <<"-", "l", "i", "k", "e">> :> "LIKE"
    @@ <<"-", "m", "a", "t", "c", "h">> :> "MATCH"
    @@ <<"-", "c", "o", "n", "t", "a", "i", "n", "s">> :> "CONTAINS"
    @@ <<"-", "n", "o", "t", "c", "o", "n", "t", "a", "i", "n", "s">> :> "NOTCONTAINS"
    @@ <<"-", "i", "n">> :> "IN_OP"
    @@ <<"-", "n", "o", "t", "i", "n">> :> "NOTIN"
    @@ <<"-", "i", "s">> :> "IS_OP"
    @@ <<"-", "i", "s", "n", "o", "t">> :> "ISNOT"
    @@ <<"-", "r", "e", "p", "l", "a", "c", "e">> :> "REPLACE"
    @@ <<"-", "a", "n", "d">> :> "AND" @@ <<"-", "o", "r">> :> "OR"
    @@ <<"-", "n", "o", "t">> :> "NOT" @@ <<"+", "=">> :> "PLUS_EQUAL"
    @@ <<"-", "=">> :> "MINUS_EQUAL" @@ <<"*", "=">> :> "STAR_EQUAL"
    @@ <<"/", "=">> :> "SLASH_EQUAL" @@ <<"%", "=">> :> "PERCENT_EQUAL"
    @@ <<"^", "=">> :> "CARET_EQUAL" @@ <<"&", "=">> :> "AMPERSAND_EQUAL"
    @@ <<"|", "=">> :> "PIPE_EQUAL" @@ <<"+", "+">> :> "PLUS_PLUS"
    @@ <<"-", "-">> :> "MINUS_MINUS" @@ <<"&", "&">> :> "AMPERSAND_AMPERSAND"
    @@ <<"|", "|">> :> "PIPE_PIPE" @@ <<"^", "^">> :> "CARET_CARET"
    @@ <<"<", "<">> :> "LESS_LESS" @@ <<">", ">">> :> "GREATER_GREATER"
    @@ <<"?", "?">> :> "QUESTION_QUESTION" @@ <<"?", ".">> :> "QUESTION_DOT"
    @@ <<":", ":">> :> "DOUBLE_COLON" @@ <<"=", ">">> :> "ARROW"
    @@ <<".", ".", ".">> :> "ELLIPSIS" @@ <<"$", "{">> :> "DOLLAR_LBRACE"
    @@ <<"<", "#">> :> "BLOCK_COMMENT_START"
    @@ <<"#", ">">> :> "BLOCK_COMMENT_END"

KEYWORDS ==
   <<"c", "l", "a", "s", "s">> :> "CLASS"
    @@ <<"f", "u", "n", "c", "t", "i", "o", "n">> :> "FUNCTION"
    @@ <<"r", "e", "t", "u", "r", "n">> :> "RETURN" @@ <<"i", "f">> :> "IF"
    @@ <<"e", "l", "s", "e">> :> "ELSE"
    @@ <<"e", "l", "s", "e", "i", "f">> :> "ELSEIF"
    @@ <<"f", "o", "r">> :> "FOR" @@ <<"w", "h", "i", "l", "e">> :> "WHILE"
    @@ <<"d", "o">> :> "DO"
    @@ <<"f", "o", "r", "e", "a", "c", "h">> :> "FOREACH"
    @@ <<"i", "n">> :> "IN" @@ <<"s", "w", "i", "t", "c", "h">> :> "SWITCH"
    @@ <<"c", "a", "s", "e">> :> "CASE"
    @@ <<"d", "e", "f", "a", "u", "l", "t">> :> "DEFAULT"
    @@ <<"b", "r", "e", "a", "k">> :> "BREAK"
    @@ <<"c", "o", "n", "t", "i", "n", "u", "e">> :> "CONTINUE"
    @@ <<"n", "a", "m", "e", "s", "p", "a", "c", "e">> :> "NAMESPACE"
    @@ <<"u", "s", "i", "n", "g">> :> "USING"
    @@ <<"e", "v", "e", "n", "t">> :> "EVENT"
    @@ <<"c", "o", "n", "s", "t">> :> "CONST" @@ <<"n", "e", "w">> :> "NEW"
    @@ <<"t", "h", "i", "s">> :> "THIS" @@ <<"n", "u", "l", "l">> :> "NULL"
    @@ <<"t", "r", "u", "e">> :> "TRUE"
    @@ <<"f", "a", "l", "s", "e">> :> "FALSE" @@ <<"t", "r", "y">> :> "TRY"
    @@ <<"c", "a", "t", "c", "h">> :> "CATCH"
    @@ <<"f", "i", "n", "a", "l", "l", "y">> :> "FINALLY"
    @@ <<"t", "h", "r", "o", "w">> :> "THROW"
    @@ <<"i", "m", "p", "o", "r", "t">> :> "IMPORT"
    @@ <<"e", "x", "p", "o", "r", "t">> :> "EXPORT"
    @@ <<"f", "r", "o", "m">> :> "FROM" @@ <<"a", "s">> :> "AS"
    @@ <<"i", "s">> :> "IS"
    @@ <<"i", "n", "s", "t", "a", "n", "c", "e", "o", "f">> :> "INSTANCEOF"
    @@ <<"t", "y", "p", "e", "o", "f">> :> "TYPEOF"
    @@ <<"a", "s", "y", "n", "c">> :> "ASYNC"
    @@ <<"a", "w", "a", "i", "t">> :> "AWAIT"

TYPE_KEYWORDS ==
   <<"i", "n", "t">> :> "INT_TYPE"
    @@ <<"d", "o", "u", "b", "l", "e">> :> "DOUBLE_TYPE"
    @@ <<"s", "t", "r", "i", "n", "g">> :> "STRING_TYPE"
    @@ <<"b", "o", "o", "l">> :> "BOOL_TYPE"
    @@ <<"a", "r", "r", "a", "y">> :> "ARRAY_TYPE"
    @@ <<"v", "o", "i", "d">> :> "VOID_TYPE"
    @@ <<"o", "b", "j", "e", "c", "t">> :> "OBJECT_TYPE"
    @@ <<"d", "a", "t", "e", "t", "i", "m", "e">> :> "DATETIME_TYPE"
    @@ <<"h", "a", "s", "h", "t", "a", "b", "l", "e">> :> "HASHTABLE_TYPE"
    @@ <<"l", "i", "s", "t">> :> "LIST_TYPE"
    @@ <<"d", "i", "c", "t", "i", "o", "n", "a", "r", "y">> :> "DICTIONARY_TYPE"

\* {**KEYWORDS, **TYPE_KEYWORDS}: a type keyword replaces a keyword
RESERVED_WORDS == TYPE_KEYWORDS @@ KEYWORDS

\* is_operator_start
OperatorStart ==
    {"+", "-", "*", "/", "%", "=", "^", "&", "|", "~", "<", ">", "!", "?", ":", ".",
     "$", "#", "@"}

\* Lexer.__init__
NewLexer(source) ==
    [source |-> source, position |-> 0, start_pos |-> 0, tokens |-> <<>>,
     errors |-> <<>>, in_type_context |-> FALSE, in_block_comment |-> FALSE,
     raised |-> "", state |-> "scanning"]

IsAtEnd(L) == L.position >= Len(L.source)
CurrentChar(L) == IF IsAtEnd(L) THEN NoChar ELSE L.source[L.position + 1]

\* Scanner.peek(offset): the character at position + offset
Peek(L, offset) ==
    IF L.position + offset < 0 \/ L.position + offset >= Len(L.source) THEN NoChar
    ELSE L.source[L.position + offset + 1]

\* peek(): the offset defaults to 0
PeekDefault(L) == Peek(L, 0)

PeekString(L, length) ==
    SubSeq(L.source, L.position + 1,
           IF L.position + length < Len(L.source) THEN L.position + length
           ELSE Len(L.source))

Advance(L) == IF IsAtEnd(L) THEN L ELSE [L EXCEPT !.position = @ + 1]

\* `for _ in range(n): advance()`
AdvanceBy(L, n) ==
    [L EXCEPT !.position = IF @ + n < Len(L.source) THEN @ + n ELSE Len(L.source)]

StartLexeme(L) == [L EXCEPT !.start_pos = L.position]
GetLexeme(L) == SubSeq(L.source, L.start_pos + 1, L.position)

\* `while not is_at_end and <current char in S>: advance()`
RECURSIVE AdvanceOver(_, _)
AdvanceOver(L, S) ==
    IF ~IsAtEnd(L) /\ CurrentChar(L) \in S THEN AdvanceOver(Advance(L), S) ELSE L

\* `while not is_at_end and <current char not in S>: advance()`
RECURSIVE AdvanceUntil(_, _)
AdvanceUntil(L, S) ==
    IF ~IsAtEnd(L) /\ CurrentChar(L) \notin S THEN AdvanceUntil(Advance(L), S) ELSE L

SkipLineComment(L) == AdvanceUntil(L, {"\n"})

\* Lexer._error: the error is recorded (and printed)
LexError(L, message) == [L EXCEPT !.errors = Append(@, message)]

\* a Python exception leaves the lexer
Raises(L, cls) == [lx |-> [L EXCEPT !.raised = cls], token |-> <<>>]

CreateToken(type, lexeme, literal) == [type |-> type, lexeme |-> lexeme, literal |-> literal]

\* what a _scan_* method returns: the lexer after it and the token, if any
Scanned(L, type, literal) ==
    [lx |-> L, token |-> <<CreateToken(type, GetLexeme(L), literal)>>]
\* the token whose literal is its lexeme
ScannedText(L, type) == Scanned(L, type, LitStr(GetLexeme(L)))
NoToken(L) == [lx |-> L, token |-> <<>>]

RECURSIVE SkipWhitespaceAndComments(_)
SkipWhitespaceAndComments(L) ==
    IF IsAtEnd(L) THEN L
    ELSE IF IsSpace(CurrentChar(L)) THEN SkipWhitespaceAndComments(Advance(L))
    ELSE IF CurrentChar(L) = "#" /\ PeekDefault(L) = "#"
    THEN SkipWhitespaceAndComments(SkipLineComment(Advance(Advance(L))))
    ELSE IF CurrentChar(L) = "<" /\ PeekDefault(L) = "#" THEN L
    ELSE IF L.in_block_comment /\ CurrentChar(L) # "\n"
    THEN SkipWhitespaceAndComments(SkipLineComment(L))
    ELSE L

ScanVariable(L) ==
    IF CurrentChar(Advance(L)) = "{"
    THEN Scanned(Advance(Advance(L)), "DOLLAR_LBRACE", LitNone)
    ELSE ScannedText(AdvanceOver(Advance(L), LetterOrDigit), "DOLLAR")

\* the control characters of the escape map, one model character each
EscapeMap ==
    "n" :> "\n" @@ "r" :> "\r" @@ "t" :> "\t" @@ "b" :> "BS" @@ "f" :> "FF"
    @@ "v" :> "VT" @@ "\\" :> "\\" @@ "\"" :> "\"" @@ "'" :> "'" @@ Backtick :> Backtick
    @@ "$" :> "$" @@ "0" :> "NUL"

\* what an escape sequence adds to the string's value
Escaped(c) == IF c \in DOMAIN EscapeMap THEN <<EscapeMap[c]>> ELSE <<"\\", c>>

Unterminated(L, value) == Scanned(LexError(L, "Unterminated string"), "STRING", LitStr(value))

\* the loop of _scan_string from the character after the opening quote.
\* Its condition calls Scanner.is_escaped when the current character is the
\* delimiter; the Scanner has no such method, so the call raises
\* AttributeError.
RECURSIVE StringBody(_, _, _)
StringBody(L, delimiter, value) ==
    IF IsAtEnd(L) THEN Unterminated(L, value)
    ELSE IF CurrentChar(L) = delimiter THEN Raises(L, "AttributeError")
    ELSE IF CurrentChar(L) = "\\"
    THEN IF IsAtEnd(Advance(L)) THEN Unterminated(Advance(L), value)
         ELSE StringBody(Advance(Advance(L)), delimiter,
                         value \o Escaped(CurrentChar(Advance(L))))
    ELSE IF CurrentChar(L) = "$" /\ PeekDefault(L) = "{"
    THEN StringBody(Advance(L), delimiter, value \o <<CurrentChar(L), PeekDefault(L)>>)
    ELSE StringBody(Advance(L), delimiter, Append(value, CurrentChar(L)))

ScanString(L) == StringBody(Advance(L), CurrentChar(L), <<>>)

\* the text between the opening backtick, where L stands, and position e
Quoted(L, e) == SubSeq(L.source, L.position + 2, e.position)

EscapeStringEnd(L, e) ==
    IF IsAtEnd(e)
    THEN Scanned(LexError(e, "Unterminated escape string"), "STRING", LitStr(Quoted(L, e)))
    ELSE Scanned(Advance(e), "STRING", LitStr(Quoted(L, e)))

ScanEscapeString(L) == EscapeStringEnd(L, AdvanceUntil(Advance(L), {Backtick}))

\* the comment token of the text from L to the end of the line
CommentToken(L) ==
    Scanned(SkipLineComment(StartLexeme(L)), "COMMENT",
            LitStr(Strip(GetLexeme(SkipLineComment(StartLexeme(L))))))

ScanComment(L) == CommentToken(Advance(Advance(L)))
ScanSingleLineComment(L) == CommentToken(Advance(L))

\* the search for `#>` of _scan_block_comment_start; the end token goes
\* straight to the token list
RECURSIVE BlockCommentBody(_)
BlockCommentBody(L) ==
    IF IsAtEnd(L) THEN L
    ELSE IF CurrentChar(L) = "#" /\ PeekDefault(L) = ">"
    THEN [StartLexeme(Advance(Advance(L))) EXCEPT
            !.in_block_comment = FALSE,
            !.tokens = Append(@, CreateToken("BLOCK_COMMENT_END", <<>>, LitNone))]
    ELSE BlockCommentBody(Advance(L))

ScanBlockCommentStart(L) ==
    [lx |-> BlockCommentBody([Advance(Advance(L)) EXCEPT !.in_block_comment = TRUE]),
     token |-> <<CreateToken("BLOCK_COMMENT_START", GetLexeme(Advance(Advance(L))), LitNone)>>]

DigitValue(c) == CHOOSE n \in 0..9 : DigitChars[n + 1] = c

\* int(text): surrounding whitespace is ignored
RECURSIVE IntOf(_)
IntOf(text) ==
    IF text = <<>> THEN 0
    ELSE IF IsSpace(text[Len(text)]) THEN IntOf(SubSeq(text, 1, Len(text) - 1))
    ELSE IF IsSpace(text[1]) THEN IntOf(Tail(text))
    ELSE IntOf(SubSeq(text, 1, Len(text) - 1)) * 10 + DigitValue(text[Len(text)])

\* _scan_hex_number / _scan_binary_number after the prefix: the digits are
\* consumed; without digits after the prefix the number is an error
ScanRadixNumber(L, digits) ==
    IF AdvanceOver(L, digits).position = L.position
    THEN Scanned(LexError(L, "Invalid number"), "INTEGER", LitInt(0))
    ELSE Scanned(AdvanceOver(L, digits), "INTEGER",
                 LitStr(GetLexeme(AdvanceOver(L, digits))))

\* the exponent of a float, L on the character after the fraction digits:
\* `current_char.lower()` on None raises AttributeError, `None in '+-'`
\* raises TypeError
ScanExponent(L) ==
    IF IsAtEnd(L) THEN Raises(L, "AttributeError")
    ELSE IF CurrentChar(L) \notin {"e", "E"} THEN Scanned(L, "DOUBLE", LitFloat(GetLexeme(L)))
    ELSE IF IsAtEnd(Advance(L)) THEN Raises(Advance(L), "TypeError")
    ELSE IF CurrentChar(Advance(L)) \in {"+", "-"}
    THEN IF IsDigit(CurrentChar(Advance(Advance(L))))
         THEN Scanned(AdvanceOver(Advance(Advance(L)), Digits), "DOUBLE",
                      LitFloat(GetLexeme(AdvanceOver(Advance(Advance(L)), Digits))))
         ELSE Scanned(LexError(LexError(Advance(Advance(L)), "Invalid floating point exponent"),
                               "Invalid floating point number"), "DOUBLE", LitFloat(<<"0">>))
    ELSE IF IsDigit(CurrentChar(Advance(L)))
    THEN Scanned(AdvanceOver(Advance(L), Digits), "DOUBLE",
                 LitFloat(GetLexeme(AdvanceOver(Advance(L), Digits))))
    ELSE Scanned(LexError(LexError(Advance(L), "Invalid floating point exponent"),
                          "Invalid floating point number"), "DOUBLE", LitFloat(<<"0">>))

\* the decimal number whose leading digits end at d
DecimalNumber(d) ==
    IF CurrentChar(d) = "." /\ PeekDefault(d) # NoChar /\ IsDigit(PeekDefault(d))
    THEN ScanExponent(AdvanceOver(Advance(d), Digits))
    ELSE Scanned(d, "INTEGER", LitInt(IntOf(GetLexeme(d))))

ScanNumber(L) ==
    IF CurrentChar(L) = "0" /\ PeekDefault(L) \in {"x", "X"}
    THEN ScanRadixNumber(Advance(Advance(L)),
                         Digits \cup {"a", "b", "c", "d", "e", "f", "A", "B", "C", "D", "E", "F"})
    ELSE IF CurrentChar(L) = "0" /\ PeekDefault(L) \in {"b", "B"}
    THEN ScanRadixNumber(Advance(Advance(L)), {"0", "1"})
    ELSE DecimalNumber(AdvanceOver(L, Digits))

\* the token of the word that ends at L: the lexeme is looked up as it is
WordToken(L) ==
    IF GetLexeme(L) \in DOMAIN RESERVED_WORDS
    THEN Scanned(L, RESERVED_WORDS[GetLexeme(L)],
                 IF RESERVED_WORDS[GetLexeme(L)] = "TRUE" THEN LitBool(TRUE)
                 ELSE IF RESERVED_WORDS[GetLexeme(L)] = "FALSE" THEN LitBool(FALSE)
                 ELSE LitNone)
    ELSE IF L.in_type_context /\ GetLexeme(L) \in DOMAIN TYPE_KEYWORDS
    THEN Scanned(L, RESERVED_WORDS[GetLexeme(L)], LitNone)
    ELSE ScannedText(L, "IDENTIFIER")

ScanIdentifierOrKeyword(L) == WordToken(AdvanceOver(L, LetterOrDigit))

\* the length of the operator _scan_operator matches at L, 4 to 1
\* characters, 0 if none
OperatorLength(L) ==
    IF PeekString(L, 4) \in DOMAIN MULTI_CHAR_OPERATORS THEN 4
    ELSE IF PeekString(L, 3) \in DOMAIN MULTI_CHAR_OPERATORS THEN 3
    ELSE IF PeekString(L, 2) \in DOMAIN MULTI_CHAR_OPERATORS THEN 2
    ELSE IF CurrentChar(L) \in DOMAIN SINGLE_CHAR_OPERATORS THEN 1
    ELSE 0

OperatorOfLength(L, length) ==
    IF length = 0
    THEN ScannedText(LexError(Advance(L), "Unexpected character"), "IDENTIFIER")
    ELSE IF length = 1
    THEN Scanned(Advance(L), SINGLE_CHAR_OPERATORS[CurrentChar(L)], LitNone)
    ELSE Scanned(AdvanceBy(L, length), MULTI_CHAR_OPERATORS[PeekString(L, length)], LitNone)

ScanOperator(L) == OperatorOfLength(L, OperatorLength(L))

ScanSingleCharToken(L) ==
    Scanned(Advance(L),
            IF CurrentChar(L) \in DOMAIN SINGLE_CHAR_OPERATORS
            THEN SINGLE_CHAR_OPERATORS[CurrentChar(L)] ELSE "IDENTIFIER",
            LitNone)

\* `self._in_type_context = <b>` after a bracket token
InTypeContext(r, b) == [r EXCEPT !.lx.in_type_context = b]

\* _scan_token after the whitespace and comments are skipped
ScanAt(L) ==
    IF IsAtEnd(L) THEN NoToken(L)
    ELSE IF CurrentChar(L) = "$" THEN ScanVariable(L)
    ELSE IF CurrentChar(L) \in {"\"", "'"} THEN ScanString(L)
    ELSE IF CurrentChar(L) = Backtick THEN ScanEscapeString(L)
    ELSE IF CurrentChar(L) = "#" /\ PeekDefault(L) = "#" THEN ScanComment(L)
    ELSE IF CurrentChar(L) = "<" /\ PeekDefault(L) = "#" THEN ScanBlockCommentStart(L)
    ELSE IF CurrentChar(L) = "#" THEN ScanSingleLineComment(L)
    ELSE IF IsDigit(CurrentChar(L)) THEN ScanNumber(L)
    ELSE IF IsAlpha(CurrentChar(L)) \/ CurrentChar(L) = "_" THEN ScanIdentifierOrKeyword(L)
    ELSE IF CurrentChar(L) \in OperatorStart THEN ScanOperator(L)
    ELSE IF CurrentChar(L) = "[" THEN InTypeContext(ScanSingleCharToken(L), TRUE)
    ELSE IF CurrentChar(L) = "]" THEN InTypeContext(ScanSingleCharToken(L), FALSE)
    ELSE ScanSingleCharToken(L)

ScanToken(L) == ScanAt(SkipWhitespaceAndComments(L))

\* one turn of the loop of tokenize: start_lexeme, _scan_token, append
Scan(L) ==
    IF ScanToken(StartLexeme(L)).lx.raised # ""
    THEN [ScanToken(StartLexeme(L)).lx EXCEPT !.state = "raised"]
    ELSE [ScanToken(StartLexeme(L)).lx EXCEPT !.tokens = @ \o ScanToken(StartLexeme(L)).token]

\* the end of tokenize: the EOF token
AddEOF(L) ==
    [L EXCEPT !.tokens = Append(@, CreateToken("EOF", <<>>, LitNone)), !.state = "done"]

\* tokenize as a whole, from lexer L
RECURSIVE TokenizeFrom(_)
TokenizeFrom(L) ==
    IF L.state # "scanning" THEN L
    ELSE IF IsAtEnd(L) THEN AddEOF(L)
    ELSE TokenizeFrom(Scan(L))

Tokenize(source) == TokenizeFrom(NewLexer(source))

\* the interpreter's variables while no program runs
Unstarted(phase) ==
    /\ envs = RuntimeInit
    /\ heap = <<>>
    /\ env = 1
    /\ output = <<>>
    /\ status = phase
    /\ result = Outcome(Value(0, NULL))
    /\ last = NoNode
    /\ nsteps = 0
    /\ program = [functions |-> <<>>, classes |-> <<>>, statements |-> <<>>]

\* the interpreter's variables while only the lexer runs
NoRun == Unstarted("lexing")

\* Lexer(source) for a source drawn from the pool S
LexInit(S) == lexer \in { NewLexer(source) : source \in S } /\ main = NoMain /\ Unused /\ NoRun

TokenizeStep ==
    /\ lexer.state = "scanning"
    /\ ~IsAtEnd(lexer)
    /\ lexer' = Scan(lexer)
    /\ UNCHANGED <<envs, heap, env, output, status, result, last, nsteps, program, main, memory, ledger, parser>>

TokenizeEnd ==
    /\ lexer.state = "scanning"
    /\ IsAtEnd(lexer)
    /\ lexer' = AddEOF(lexer)
    /\ UNCHANGED <<envs, heap, env, output, status, result, last, nsteps, program, main, memory, ledger, parser>>

LexNext == TokenizeStep \/ TokenizeEnd

-----------------------------------------------------------------------------
(* Tokenizing every source of up to MaxSource characters of LexAlphabet *)

MaxSource == 4      \* longest source of the lexer pool

LexAlphabet == {"a", "1", " ", "\"", "-"}

LexSources == UNION { SeqsOf(LexAlphabet, n) : n \in 0..MaxSource }

SpecLexer == LexInit(LexSources) /\ [][LexNext]_vars

\* the number of characters c in text
CountChar(text, c) == Cardinality({ i \in DOMAIN text : text[i] = c })

\* the last token of the list, and no other, is EOF
EndsInEOF(tokens) ==
    /\ tokens # <<>>
    /\ \A i \in DOMAIN tokens : (tokens[i].type = "EOF") = (i = Len(tokens))

\* C16: for every source tokenize returns a token list whose last token,
\* and no other, is EOF; with one unterminated string literal in the source
\* it records exactly one error, raises nothing and returns such a list.
C16_AlwaysEndsInEOF ==
    lexer.state # "scanning" =>
        /\ lexer.state = "done"
        /\ EndsInEOF(lexer.tokens)
        /\ CountChar(lexer.source, "\"") = 1 => Len(lexer.errors) = 1

\* the part of C16 the lexer keeps: when tokenize returns, its list ends in
\* the only EOF, and a source with a single quote character has recorded
\* exactly one error
TokenizeReturnsEOF ==
    lexer.state = "done" =>
        /\ EndsInEOF(lexer.tokens)
        /\ CountChar(lexer.source, "\"") = 1 => Len(lexer.errors) = 1

-----------------------------------------------------------------------------
(* Keywords in any letter case, after up to MaxPad spaces, at the start of  *)
(* the source or after a parenthesis                                         *)

MaxPad == 2         \* spaces before a keyword

KeywordSample == { <<"i", "f">>, <<"d", "o">>, <<"i", "n">>, <<"a", "s">> }

UpperChar(c) ==
    IF \E i \in 1..26 : LowerLetters[i] = c
    THEN UpperLetters[CHOOSE i \in 1..26 : LowerLetters[i] = c]
    ELSE c

\* the spellings of word in every mix of letter cases
Spellings(word) ==
    { [ i \in 1..Len(word) |-> IF i \in up THEN UpperChar(word[i]) ELSE word[i] ] :
        up \in SUBSET (1..Len(word)) }

Spaces(n) == [ i \in 1..n |-> " " ]

KeywordSources ==
    { before \o Spaces(n) \o w :
        before \in { <<>>, <<"(">> }, n \in 0..MaxPad,
        w \in UNION { Spellings(k) : k \in KeywordSample } }

SpecKeywords == LexInit(KeywordSources) /\ [][LexNext]_vars

\* the letters of the source: the identifier that was written
WrittenWord(text) == SelectSeq(text, IsAlpha)

\* C17: an identifier that spells a keyword in any letter case, after any
\* whitespace, is a token of that keyword's type whose lexeme is the
\* identifier as written.
C17_KeywordInAnyCase ==
    lexer.state = "done" =>
        /\ Len(lexer.tokens) >= 2
        /\ lexer.tokens[Len(lexer.tokens) - 1].type =
               RESERVED_WORDS[Lower(WrittenWord(lexer.source))]
        /\ lexer.tokens[Len(lexer.tokens) - 1].lexeme = WrittenWord(lexer.source)

\* what the lexer does instead: the word is a keyword only when it starts
\* its scan and is spelled in lower case
KeywordOnlyAsIs ==
    lexer.state = "done" =>
        (lexer.tokens[Len(lexer.tokens) - 1].type # "IDENTIFIER")
            = (lexer.tokens[Len(lexer.tokens) - 1].lexeme \in DOMAIN RESERVED_WORDS)

-----------------------------------------------------------------------------
(* `-word` operators: every word of the operator table and some words that  *)
(* are not in it, alone or between operands                                 *)

DashWords == { w \in DOMAIN MULTI_CHAR_OPERATORS : w[1] = "-" /\ IsAlpha(w[2]) }

UnknownWords == { <<"-", "f", "o", "o">>, <<"-", "e", "q", "x">>, <<"-", "l", "i", "k">> }

DashSources ==
    { before \o w \o after :
        before \in { <<>>, <<"1", " ">> }, after \in { <<>>, <<" ", "2">> },
        w \in DashWords \cup UnknownWords }

SpecDashWords == LexInit(DashSources) /\ [][LexNext]_vars

\* the `-word` of a source of the pool
DashWord(text) == SelectSeq(text, LAMBDA c : c = "-" \/ IsAlpha(c))

\* the tokens that are neither the operands nor EOF
WordTokens(tokens) == SelectSeq(tokens, LAMBDA t : t.type \notin {"INTEGER", "EOF"})

\* C18: `-` followed by letters is looked up as one word: a word of the
\* operator table gives exactly one token of its type, any other word gives
\* a lexer error and no MINUS token.
C18_DashWordIsOneToken ==
    lexer.state = "done" =>
        IF DashWord(lexer.source) \in DOMAIN MULTI_CHAR_OPERATORS
        THEN /\ Len(WordTokens(lexer.tokens)) = 1
             /\ WordTokens(lexer.tokens)[1].type = MULTI_CHAR_OPERATORS[DashWord(lexer.source)]
        ELSE /\ lexer.errors # <<>>
             /\ \A i \in DOMAIN lexer.tokens : lexer.tokens[i].type # "MINUS"

\* what the lexer does instead: a word is one token exactly when it has at
\* most four characters with the dash and is in the table
DashWordUpToFour ==
    lexer.state = "done" =>
        (Len(WordTokens(lexer.tokens)) = 1)
            = (DashWord(lexer.source) \in DOMAIN MULTI_CHAR_OPERATORS
                   /\ Len(DashWord(lexer.source)) <= 4)

-----------------------------------------------------------------------------
(* Lexing the lexemes again *)

IsComment(token) == token.type \in {"COMMENT", "BLOCK_COMMENT_START", "BLOCK_COMMENT_END"}

\* the texts joined with single spaces
RECURSIVE Join(_)
Join(texts) ==
    IF texts = <<>> THEN <<>>
    ELSE IF Len(texts) = 1 THEN texts[1]
    ELSE texts[1] \o <<" ">> \o Join(Tail(texts))

Lexemes(tokens) == [ i \in DOMAIN tokens |-> tokens[i].lexeme ]
TypesAndLiterals(tokens) ==
    [ i \in DOMAIN tokens |-> [type |-> tokens[i].type, literal |-> tokens[i].literal] ]

NonComment(tokens) == SelectSeq(tokens, LAMBDA t : ~IsComment(t))

\* C19: a source lexed without error gives lexemes that are the text of
\* their tokens, and that, joined with single spaces and lexed again, give
\* the same token types and literals.
C19_LexemesLexAgain ==
    (lexer.state = "done" /\ lexer.errors = <<>>) =>
        /\ \A i \in DOMAIN lexer.tokens :
              lexer.tokens[i].lexeme = <<>> \/ ~IsSpace(lexer.tokens[i].lexeme[1])
        /\ TypesAndLiterals(NonComment(Tokenize(Join(Lexemes(NonComment(lexer.tokens)))).tokens))
               = TypesAndLiterals(NonComment(lexer.tokens))

-----------------------------------------------------------------------------
(* Running the package: python -m powerlang file (src/__main__.py).  The    *)
(* statements at the top of __main__ import the lexer, the parser and the   *)
(* runtime before main() reads the file; importing a module runs its body.  *)
(* Of a module body the model keeps the members of TokenType it looks up,   *)
(* in source order: looking up a name the enum does not define raises       *)
(* AttributeError, which ends the run.                                      *)

\* class TokenType(Enum): the names of its members
TokenType ==
    { "IDENTIFIER", "VARIABLE", "STRING", "INTEGER", "DOUBLE", "BOOL", "DOLLAR",
      "CLASS", "FUNCTION", "RETURN", "IF", "ELSE", "ELSEIF", "FOR", "WHILE",
      "DO", "FOREACH", "IN", "SWITCH", "CASE", "DEFAULT", "BREAK", "CONTINUE",
      "NAMESPACE", "USING", "EVENT", "CONST", "NEW", "THIS", "NULL", "TRUE",
      "FALSE", "TRY", "CATCH", "FINALLY", "THROW", "IMPORT", "EXPORT", "FROM",
      "AS", "IS", "INSTANCEOF", "TYPEOF", "ASYNC", "AWAIT", "INT_TYPE",
      "DOUBLE_TYPE", "STRING_TYPE", "BOOL_TYPE", "ARRAY_TYPE", "VOID_TYPE",
      "OBJECT_TYPE", "DATETIME_TYPE", "HASHTABLE_TYPE", "LIST_TYPE",
      "DICTIONARY_TYPE", "PLUS", "MINUS", "STAR", "SLASH", "PERCENT", "CARET",
      "AMPERSAND", "PIPE", "TILDE", "EQ", "NE", "GT", "LT", "GE", "LE", "LIKE",
      "MATCH", "CONTAINS", "NOTCONTAINS", "IN_OP", "NOTIN", "IS_OP", "ISNOT",
      "REPLACE", "AND", "OR", "NOT", "EQUAL", "PLUS_EQUAL", "MINUS_EQUAL",
      "STAR_EQUAL", "SLASH_EQUAL", "PERCENT_EQUAL", "CARET_EQUAL",
      "AMPERSAND_EQUAL", "PIPE_EQUAL", "PLUS_PLUS", "MINUS_MINUS",
      "AMPERSAND_AMPERSAND", "PIPE_PIPE", "CARET_CARET", "LESS_LESS",
      "GREATER_GREATER", "QUESTION", "QUESTION_QUESTION", "QUESTION_DOT",
      "LBRACKET", "RBRACKET", "LPAREN", "RPAREN", "LBRACE", "RBRACE", "DOT",
      "COMMA", "COLON", "SEMICOLON", "AT", "HASH", "COMMENT",
      "BLOCK_COMMENT_START", "BLOCK_COMMENT_END", "DOUBLE_COLON", "ARROW",
      "ELLIPSIS", "DOLLAR_LBRACE", "EOF" }

\* the members of TokenType named by the body of lexer/keywords.py
KeywordReferences ==
    << "CLASS", "FUNCTION", "RETURN", "IF", "ELSE", "ELSEIF", "FOR", "WHILE",
      "DO", "FOREACH", "IN", "SWITCH", "CASE", "DEFAULT", "BREAK", "CONTINUE",
      "NAMESPACE", "USING", "EVENT", "CONST", "NEW", "THIS", "NULL", "TRUE",
      "FALSE", "TRY", "CATCH", "FINALLY", "THROW", "IMPORT", "EXPORT", "FROM",
      "AS", "IS", "INSTANCEOF", "TYPEOF", "ASYNC", "AWAIT", "INT_TYPE",
      "DOUBLE_TYPE", "STRING_TYPE", "BOOL_TYPE", "ARRAY_TYPE", "VOID_TYPE",
      "OBJECT_TYPE", "DATETIME_TYPE", "HASHTABLE_TYPE", "LIST_TYPE",
      "DICTIONARY_TYPE" >>

\* the members of TokenType named by the body of lexer/operators.py
OperatorReferences ==
    << "PLUS", "MINUS", "STAR", "SLASH", "PERCENT", "CARET", "AMPERSAND", "PIPE",
      "TILDE", "EQUAL", "LPAREN", "RPAREN", "LBRACKET", "RBRACKET", "LBRACE",
      "RBRACE", "DOT", "COMMA", "COLON", "SEMICOLON", "AT", "HASH", "QUESTION",
      "LT", "GT", "EQ", "NE", "GT", "LT", "GE", "LE", "LIKE", "MATCH",
      "CONTAINS", "NOTCONTAINS", "IN_OP", "NOTIN", "IS_OP", "ISNOT", "REPLACE",
      "AND", "OR", "NOT", "PLUS_EQUAL", "MINUS_EQUAL", "STAR_EQUAL",
      "SLASH_EQUAL", "PERCENT_EQUAL", "CARET_EQUAL", "AMPERSAND_EQUAL",
      "PIPE_EQUAL", "PLUS_PLUS", "MINUS_MINUS", "AMPERSAND_AMPERSAND",
      "PIPE_PIPE", "CARET_CARET", "LESS_LESS", "GREATER_GREATER",
      "QUESTION_QUESTION", "QUESTION_DOT", "DOUBLE_COLON", "ARROW", "ELLIPSIS",
      "DOLLAR_LBRACE", "BLOCK_COMMENT_START", "BLOCK_COMMENT_END",
      "QUESTION_DOT", "DOT", "DOUBLE_COLON", "PLUS_PLUS", "MINUS_MINUS",
      "CARET", "TILDE", "NOT", "STAR", "SLASH", "PERCENT", "PLUS", "MINUS",
      "LESS_LESS", "GREATER_GREATER", "LT", "GT", "LE", "GE", "EQ", "NE",
      "LIKE", "MATCH", "CONTAINS", "NOTCONTAINS", "IN_OP", "NOTIN", "IS_OP",
      "ISNOT", "REPLACE", "AMPERSAND", "CARET", "PIPE", "AND", "OR",
      "QUESTION_QUESTION", "QUESTION", "EQUAL", "PLUS_EQUAL", "MINUS_EQUAL",
      "STAR_EQUAL", "SLASH_EQUAL", "PERCENT_EQUAL", "CARET_EQUAL",
      "AMPERSAND_EQUAL", "PIPE_EQUAL", "COMMA" >>

\* the members of TokenType named by the body of parser/precedence.py: the
\* keys of OPERATOR_PRECEDENCE, then those of OPERATOR_ASSOCIATIVITY
PrecedenceReferences ==
    << "EQUAL", "PLUS_EQUAL", "MINUS_EQUAL", "STAR_EQUAL", "SLASH_EQUAL",
      "PERCENT_EQUAL", "CARET_EQUAL", "AMPERSAND_EQUAL", "PIPE_EQUAL",
      "QUESTION", "QUESTION_QUESTION", "OR", "AND", "PIPE", "CARET",
      "AMPERSAND", "EQ", "NE", "LIKE", "MATCH", "CONTAINS", "NOTCONTAINS",
      "IN_OP", "NOTIN", "IS_OP", "ISNOT", "REPLACE", "GT", "LT", "GE", "LE",
      "LESS_LESS", "GREATER_GREATER", "PLUS", "MINUS", "STAR", "SLASH",
      "PERCENT", "STAR_STAR", "PLUS_PLUS", "MINUS_MINUS", "LPAREN", "LBRACKET",
      "DOT", "QUESTION_DOT", "DOUBLE_COLON", "EQUAL", "PLUS_EQUAL",
      "MINUS_EQUAL", "STAR_EQUAL", "SLASH_EQUAL", "PERCENT_EQUAL",
      "CARET_EQUAL", "AMPERSAND_EQUAL", "PIPE_EQUAL", "QUESTION",
      "QUESTION_QUESTION", "OR", "AND", "PIPE", "CARET", "AMPERSAND", "EQ",
      "NE", "LIKE", "MATCH", "CONTAINS", "NOTCONTAINS", "IN_OP", "NOTIN",
      "IS_OP", "ISNOT", "REPLACE", "GT", "LT", "GE", "LE", "LESS_LESS",
      "GREATER_GREATER", "PLUS", "MINUS", "STAR", "SLASH", "PERCENT", "CARET",
      "PLUS", "MINUS", "NOT", "PLUS_PLUS", "MINUS_MINUS", "LPAREN", "LBRACKET",
      "DOT", "QUESTION_DOT", "DOUBLE_COLON" >>

\* the modules that `from powerlang.lexer.lexer import Lexer` and
\* `from powerlang.parser.parser import Parser` run, in the order their
\* bodies run, each with the members of TokenType its body names
ImportOrder ==
    << [name |-> "lexer.tokens", references |-> <<>>],
       [name |-> "lexer.scanner", references |-> <<>>],
       [name |-> "lexer.keywords", references |-> KeywordReferences],
       [name |-> "lexer.operators", references |-> OperatorReferences],
       [name |-> "lexer.lexer", references |-> <<>>],
       [name |-> "parser.ast", references |-> <<>>],
       [name |-> "errors.errors", references |-> <<>>],
       [name |-> "parser.precedence", references |-> PrecedenceReferences],
       [name |-> "parser.parser", references |-> <<>>] >>

\* Enum.__getattr__: the names of references that TokenType does not define
Undefined(references) ==
    SelectSeq(references, LAMBDA name : name \notin TokenType)

\* `python -m powerlang file` before the first import
NewMain(file) ==
    [file |-> file, modules |-> <<>>, state |-> "importing",
     error |-> "none", missing |-> "none", printed |-> "none"]

\* running the body of module: it is loaded, or the first name that
\* TokenType does not define raises AttributeError out of __main__
ImportModule(M, module) ==
    IF Undefined(module.references) # <<>>
    THEN [M EXCEPT !.state = "raised", !.error = "AttributeError",
                   !.missing = Undefined(module.references)[1]]
    ELSE [M EXCEPT !.modules = Append(@, module.name),
                   !.state = IF Len(@) + 1 = Len(ImportOrder)
                             THEN "imported" ELSE "importing"]

MainInit(F) ==
    /\ main \in { NewMain(file) : file \in F }
    /\ lexer = NoLexer
    /\ Unused
    /\ Unstarted("importing")

\* one module of the import statements of __main__
Import ==
    /\ main.state = "importing"
    /\ main' = ImportModule(main, ImportOrder[Len(main.modules) + 1])
    /\ UNCHANGED <<envs, heap, env, output, status, result, last, nsteps, program, memory, ledger, parser, lexer>>

MainNext == Import

-----------------------------------------------------------------------------
(* The files of the runs: the typed declaration followed by an if, and the  *)
(* chains of two binary operators                                           *)

TypedSource ==
    << "[", "i", "n", "t", "]", "$", "x", " ", "=", " ", "4", "2",
       ";", " ", "i", "f", " ", "(", "$", "x", " ", "-", "g", "t",
       " ", "1", "0", ")", " ", "{", " ", "$", "x", " ", "+", " ",
       "1", ";", " ", "}", " ", "e", "l", "s", "e", " ", "{", " ",
       "0", ";", " ", "}" >>

ChainOperands == {1, 2, 3, 10}
ChainOperators == {"+", "-", "*"}

\* a op b op c
Chains ==
    { <<a, o, b, p, c>> : a \in ChainOperands, o \in ChainOperators,
                          b \in ChainOperands, p \in ChainOperators,
                          c \in ChainOperands }

\* the decimal digits of n
RECURSIVE Numeral(_)
Numeral(n) ==
    IF n < 10 THEN <<DigitChars[n + 1]>>
    ELSE Numeral(n \div 10) \o <<DigitChars[(n % 10) + 1]>>

\* the file holding the chain as one expression statement
ChainText(chain) ==
    Numeral(chain[1]) \o <<" ", chain[2], " ">> \o Numeral(chain[3])
        \o <<" ", chain[4], " ">> \o Numeral(chain[5]) \o <<";">>

MainFiles == {TypedSource} \cup { ChainText(chain) : chain \in Chains }

SpecMain == MainInit(MainFiles) /\ [][MainNext]_vars

\* the run has ended
Ended == main.state \notin {"none", "importing"}

\* C15: the run of the typed declaration followed by `if` ends with the
\* value 43.
C15_TypedDeclarationYields43 ==
    (Ended /\ main.file = TypedSource) =>
        /\ main.state = "done"
        /\ main.printed = 43

Operate(o, a, b) == IF o = "+" THEN a + b ELSE IF o = "-" THEN a - b ELSE a * b

\* the value of a op b op c when * binds tighter than + and -, and operators
\* of one level group left to right
ByPrecedence(chain) ==
    IF chain[4] = "*" /\ chain[2] # "*"
    THEN Operate(chain[2], chain[1], Operate(chain[4], chain[3], chain[5]))
    ELSE Operate(chain[4], Operate(chain[2], chain[1], chain[3]), chain[5])

\* C20: the run of a chain of binary operators ends with the value of the
\* tree the precedence table fixes, operators of one level grouped left to
\* right (10 - 3 - 2 is 5).
C20_ChainGroupsByPrecedence ==
    \A chain \in Chains :
        (Ended /\ main.file = ChainText(chain)) =>
            /\ main.state = "done"
            /\ main.printed = ByPrecedence(chain)

\* what the run does instead: it ends while importing parser.precedence,
\* with AttributeError for the member STAR_STAR
ImportRaises ==
    Ended =>
        /\ main.state = "raised"
        /\ main.error = "AttributeError"
        /\ main.missing = "STAR_STAR"
        /\ main.modules = [ i \in 1..7 |-> ImportOrder[i].name ]

-----------------------------------------------------------------------------
(* The power operator on Int operands (programs of SpecBinary) *)

IsIntLiteral(node) == node.t = "Literal" /\ node.value.t = "Int"

\* the program is `a ^ b;` with Int literals a and b, b >= 0, and has run
IsIntPower ==
    /\ nsteps = 1
    /\ last.t = "ExpressionStatement"
    /\ last.expression.t = "BinaryOperation"
    /\ last.expression.operator = "CARET"
    /\ IsIntLiteral(last.expression.left)
    /\ IsIntLiteral(last.expression.right)
    /\ last.expression.right.value.v >= 0

\* C24: for Int operands a and b, b >= 0, `a ^ b` is a to the power b; in
\* particular a ^ 0 = 1 and 0 ^ b = 0 for b > 0.
C24_IntPower ==
    IsIntPower =>
        /\ result.k = "value"
        /\ result.v = IntValue(IntPow(last.expression.left.value.v,
                                      last.expression.right.value.v))

\* what `^` does instead: the exponent 0 is replaced by 1 (`rp or 1`), so
\* a ^ 0 is a; for every other exponent the power is computed
PowerOfZeroIsBase ==
    IsIntPower =>
        /\ result.k = "value"
        /\ result.v = IntValue(IF last.expression.right.value.v = 0
                               THEN last.expression.left.value.v
                               ELSE IntPow(last.expression.left.value.v,
                                           last.expression.right.value.v))

-----------------------------------------------------------------------------
(* Compound assignment: `$x = a; $x op= e;` and `$x = a; $x = $x op e;`    *)
(* over Int operands                                                        *)

\* the compound operators and the binary operator each stands for
CompoundOperators ==
    [PLUS_EQUAL |-> "PLUS", MINUS_EQUAL |-> "MINUS", STAR_EQUAL |-> "STAR",
     SLASH_EQUAL |-> "SLASH", PERCENT_EQUAL |-> "PERCENT"]

CompoundInts == (-MaxInt)..MaxInt

\* `$x op= e;`
CompoundForm(op, e) == Do(Assignment(Var("x"), op, Num(e)))
\* `$x = $x op e;`
PlainForm(op, e) == Set("x", BinaryOperation(Var("x"), CompoundOperators[op], Num(e)))

CompoundPrograms ==
    { Program(<<>>, <<Set("x", Num(a)), CompoundForm(op, e)>>) :
        a \in CompoundInts, op \in DOMAIN CompoundOperators, e \in CompoundInts }
    \cup { Program(<<>>, <<Set("x", Num(a)), PlainForm(op, e)>>) :
        a \in CompoundInts, op \in DOMAIN CompoundOperators, e \in CompoundInts }

SpecCompound == RunInit(CompoundPrograms) /\ [][Next]_vars

\* the second statement has run and was the compound form
IsCompoundDone ==
    /\ nsteps = 2
    /\ last.expression.operator \in DOMAIN CompoundOperators

\* the outcome of `$x = $x op e` where $x holds a
PlainOutcome ==
    BinaryOp(Machine(envs, heap, env, output),
             CompoundOperators[last.expression.operator],
             program.statements[1].expression.value.value,
             last.expression.value.value)

\* the value of $x in the top scope
TopX == envs[2].values[<<"x">>]

\* C29: `$x op= e` ends as `$x = $x op e` does: the same value is yielded
\* and stored in $x, or the same error is raised and $x is left unchanged.
C29_CompoundAsPlain ==
    IsCompoundDone =>
        /\ result.k = PlainOutcome.k
        /\ result.cls = PlainOutcome.cls
        /\ PlainOutcome.k = "value" => (result.v = PlainOutcome.v /\ TopX = PlainOutcome.v)
        /\ PlainOutcome.k = "error" =>
              TopX = program.statements[1].expression.value.value

\* what the compound forms do instead: they agree with the plain form
\* unless e is 0 for `/=` or `%=`; `$x /= 0` stores and yields Null and
\* `$x %= 0` stores and yields 0, without an error
CompoundExceptByZero ==
    IsCompoundDone =>
        IF last.expression.value.value.v = 0
           /\ last.expression.operator \in {"SLASH_EQUAL", "PERCENT_EQUAL"}
        THEN /\ result.k = "value"
             /\ result.v = (IF last.expression.operator = "SLASH_EQUAL"
                            THEN NULL ELSE IntValue(0))
             /\ TopX = result.v
        ELSE /\ result.k = "value"
             /\ PlainOutcome.k = "value"
             /\ result.v = PlainOutcome.v
             /\ TopX = PlainOutcome.v

-----------------------------------------------------------------------------
(* Assignment to a variable: `name = v;` at the top level or inside nested  *)
(* blocks, after the name was left unbound, assigned, or declared constant  *)

MaxNest == 2        \* blocks around an assignment

\* $x, its upper-case spelling, and the builtin name len
AssignedNames == { <<"$", "x">>, <<"$", "X">>, <<"$", "l", "e", "n">> }
AssignedValues == {1, 2}

\* `name = v;` inside d blocks
RECURSIVE Nested(_, _)
Nested(d, stmt) == IF d = 0 THEN stmt ELSE Block(<<Nested(d - 1, stmt)>>)

SetName(name, v) == ExpressionStatement(Assignment(Variable(name), "EQUAL", Num(v)))

\* nothing, `name = 0;`, or `const name = 0;`
AssignPrologues(name) ==
    { <<>>, <<SetName(name, 0)>>, <<VariableDeclaration(name, Num(0), TRUE)>> }

NestedAssignments ==
    { Nested(d, SetName(name, v)) :
        d \in 0..MaxNest, name \in AssignedNames, v \in AssignedValues }

\* one assignment or two
AssignBodies == SeqsOf(NestedAssignments, 1) \cup SeqsOf(NestedAssignments, 2)

AssignPrograms ==
    UNION { { Program(<<>>, pro \o body) :
                pro \in AssignPrologues(name),
                body \in AssignBodies } :
            name \in AssignedNames }

SpecAssign == RunInit(AssignPrograms) /\ [][Next]_vars

\* the nearest scope from e outward that binds key, 0 if none does
RECURSIVE Holder(_, _, _)
Holder(E, e, key) ==
    IF e = 0 THEN 0
    ELSE IF Binds(E, e, key) THEN e
    ELSE Holder(E, E[e].parent, key)

\* the step from E to F ran `name = v` inside d blocks: what C22 says of it
AssignedAsClaimed(E, F, e, d, name, v, r) ==
    LET key == NormalizeName(name)
        current == IF d = 0 THEN e ELSE Len(E) + d
        holder == Holder(E, e, key)
    IN  IF holder = 0
        THEN /\ r.k = "value"
             /\ r.v = IntValue(v)
             /\ Binds(F, current, key)
             /\ F[current].values[key] = IntValue(v)
             /\ \A s \in DOMAIN F :
                   Binds(F, s, key) <=> (s = current \/ (s \in DOMAIN E /\ Binds(E, s, key)))
        ELSE IF key \notin E[holder].consts
        THEN /\ r.k = "value"
             /\ r.v = IntValue(v)
             /\ F[holder].values[key] = IntValue(v)
             /\ \A s \in DOMAIN F :
                   Binds(F, s, key) <=> (s \in DOMAIN E /\ Binds(E, s, key))
        ELSE /\ r.k = "error"
             /\ \A s \in DOMAIN E : F[s] = E[s]

-----------------------------------------------------------------------------
(* MemoryManager (memory.py): the registry of allocated values and their    *)
(* reference counts.  Each method takes the manager M and yields the        *)
(* manager after it and what the method returns.                            *)

MaxMemoryCalls == 5     \* ledger made on one MemoryManager

Returned(M, x) == [mm |-> M, returned |-> x]

\* del d[uid]
Without(d, uid) == [ k \in DOMAIN d \ {uid} |-> d[k] ]

MemAllocate(M, value) ==
    Returned([allocations |-> (M.next_id :> value) @@ M.allocations,
              refcounts |-> (M.next_id :> 1) @@ M.refcounts,
              next_id |-> M.next_id + 1],
             LitInt(M.next_id))

MemRetain(M, uid) ==
    IF uid \in DOMAIN M.refcounts
    THEN Returned([M EXCEPT !.refcounts[uid] = @ + 1], LitNone)
    ELSE Returned(M, LitNone)

\* a release that frees one reference too early
MemReleaseEarly(M, uid) ==
    IF uid \notin DOMAIN M.refcounts
    THEN Returned(M, LitBool(FALSE))
    ELSE IF M.refcounts[uid] - 1 <= 1
    THEN Returned([M EXCEPT !.refcounts = Without(@, uid),
                            !.allocations = Without(@, uid)], LitBool(TRUE))
    ELSE Returned([M EXCEPT !.refcounts[uid] = @ - 1], LitBool(FALSE))

MemRelease(M, uid) ==
    IF uid \notin DOMAIN M.refcounts
    THEN Returned(M, LitBool(FALSE))
    ELSE IF M.refcounts[uid] - 1 <= 0
    THEN Returned([M EXCEPT !.refcounts = Without(@, uid),
                            !.allocations = Without(@, uid)], LitBool(TRUE))
    ELSE Returned([M EXCEPT !.refcounts[uid] = @ - 1], LitBool(FALSE))

\* a RuntimeValue returned to Python
PyValue(value) == [py |-> "value", v |-> value]

MemGet(M, uid) ==
    Returned(M, IF uid \in DOMAIN M.allocations THEN PyValue(M.allocations[uid]) ELSE LitNone)

MemFree(M, uid) ==
    IF uid \notin DOMAIN M.allocations
    THEN Returned(M, LitBool(FALSE))
    ELSE Returned([M EXCEPT !.allocations = Without(@, uid),
                            !.refcounts = Without(@, uid)], LitBool(TRUE))

MemCount(M) == Returned(M, LitInt(Cardinality(DOMAIN M.allocations)))

\* the values registered and the ids passed to the methods
MemoryValues == {NULL, IntValue(0)}
MemoryIds == 0..(MaxMemoryCalls + 1)

\* the count the ledger keeps for a live id
Expected(c, uid) == 1 + c.retains[uid] - c.releases[uid]

\* the ledger after the call op(uid) that returned r on manager M: the record of
\* what the calls should have done, kept without reading the manager
AfterCall(c, op, uid, r, M) ==
    LET d == [c EXCEPT !.op = op, !.uid = uid, !.returned = r.returned, !.before = M]
    IN  CASE op = "allocate" ->
                [d EXCEPT !.issued = @ \cup {r.returned.v},
                          !.reissued = @ \/ r.returned.v \in c.issued,
                          !.live = @ \cup {r.returned.v},
                          !.retains = (r.returned.v :> 0) @@ @,
                          !.releases = (r.returned.v :> 0) @@ @]
          [] op = "retain" /\ uid \in c.live -> [d EXCEPT !.retains[uid] = @ + 1]
          [] op = "release" /\ uid \in c.live ->
                [d EXCEPT !.releases[uid] = @ + 1,
                          !.live = IF Expected(c, uid) = 1 THEN @ \ {uid} ELSE @]
          [] op = "free" /\ uid \in c.live -> [d EXCEPT !.live = @ \ {uid}]
          [] OTHER -> d

MemoryInit ==
    /\ memory = NewMemoryManager
    /\ ledger = NoCalls
    /\ parser = NoParser
    /\ lexer = NoLexer
    /\ main = NoMain
    /\ Unstarted("memory")

\* the call op(uid) with outcome r
MemoryCall(op, uid, r) ==
    /\ Len(ledger.log) < MaxMemoryCalls
    /\ memory' = r.mm
    /\ ledger' = [AfterCall(ledger, op, uid, r, memory) EXCEPT !.log = Append(@, op)]
    /\ UNCHANGED <<envs, heap, env, output, status, result, last, nsteps, program, main, parser, lexer>>

AllocateCall == \E value \in MemoryValues : MemoryCall("allocate", 0, MemAllocate(memory, value))
RetainCall == \E uid \in MemoryIds : MemoryCall("retain", uid, MemRetain(memory, uid))
ReleaseCall == \E uid \in MemoryIds : MemoryCall("release", uid, MemRelease(memory, uid))
GetCall == \E uid \in MemoryIds : MemoryCall("get", uid, MemGet(memory, uid))
FreeCall == \E uid \in MemoryIds : MemoryCall("free", uid, MemFree(memory, uid))
CountCall == MemoryCall("count", 0, MemCount(memory))

MemoryNext ==
    AllocateCall \/ RetainCall \/ ReleaseCall \/ GetCall \/ FreeCall \/ CountCall

SpecMemory == MemoryInit /\ [][MemoryNext]_vars

\* the part of C23 that every state shows: the live ids are those issued
\* and not yet freed, each with the count 1 + retains - releases >= 1
LiveAsExpected ==
    /\ DOMAIN memory.allocations = ledger.live
    /\ DOMAIN memory.refcounts = ledger.live
    /\ ledger.live \subseteq ledger.issued
    /\ \A uid \in ledger.live :
          /\ memory.refcounts[uid] = Expected(ledger, uid)
          /\ memory.refcounts[uid] >= 1

\* the part of C23 that the last call shows
LastCallAsExpected ==
    LET M == ledger.before
        wasLive == ledger.uid \in DOMAIN M.allocations
    IN  /\ ledger.op = "allocate" =>
              /\ ledger.returned.v \notin DOMAIN M.allocations
              /\ ledger.returned.v \in ledger.live
              /\ \A uid \in DOMAIN M.allocations : memory.refcounts[uid] = M.refcounts[uid]
        /\ (ledger.op \in {"retain", "release", "free"} /\ ~wasLive) => memory = M
        /\ ledger.op = "release" =>
              ledger.returned = LitBool(wasLive /\ M.refcounts[ledger.uid] = 1)
        /\ (ledger.op = "release" /\ wasLive) =>
              (ledger.uid \in ledger.live) = (M.refcounts[ledger.uid] > 1)
        /\ ledger.op = "get" =>
              ledger.returned = (IF ledger.uid \in ledger.live
                                THEN PyValue(memory.allocations[ledger.uid]) ELSE LitNone)
        /\ ledger.op = "count" => ledger.returned = LitInt(Cardinality(ledger.live))
        /\ ledger.op \in {"get", "count"} => memory = M

\* C23: after any sequence of allocate, retain, release and free, allocate
\* has never returned an id it returned before; an id is live iff it was
\* allocated and not yet freed; its count is 1 + retains - releases and at
\* least 1; release frees it exactly when the count reaches 0 and returns
\* True only then; get and count see the live ids; and the calls on an id
\* that is not live change nothing.
C23_CountsAndLiveness ==
    /\ ~ledger.reissued
    /\ LiveAsExpected
    /\ LastCallAsExpected

\* an id was retained, released twice and thereby freed, and a later
\* allocate returned a new id
C23_Witness ==
    /\ ledger.log = <<"allocate", "retain", "release", "release", "allocate">>
    /\ ledger.issued = {1, 2}
    /\ ledger.live = {2}
    /\ DOMAIN memory.allocations = {2}

-----------------------------------------------------------------------------
(* Argument binding (_eval_call, Environment.define): calls of functions     *)
(* whose parameter is named like a variable of the top scope, like a        *)
(* builtin, or like nothing visible from the closure                         *)

\* function k($y) { return 0; }   function b($len) { return 0; }
\* function q($v) { return 0; }
ParamFunctions ==
    << Function("k", << <<"$", "y">> >>, <<ReturnStatement(Num(0))>>),
       Function("b", << <<"$", "l", "e", "n">> >>, <<ReturnStatement(Num(0))>>),
       Function("q", << <<"$", "v">> >>, <<ReturnStatement(Num(0))>>) >>

ParamCallK == Do(Call(Named("k"), <<Num(9)>>))             \* k(9);
ParamCallB == Do(Call(Named("b"), <<Num(1)>>))             \* b(1);
ParamCallQ == Do(Call(Named("q"), <<Num(2)>>))             \* q(2);
ParamCalls == {ParamCallK, ParamCallB, ParamCallQ}

\* `$y = 7;` and the three calls, in every order
ParamStatements == {BindY} \cup ParamCalls

ParamPrograms ==
    { Program(ParamFunctions, calls) : calls \in SeqsOf(ParamStatements, MaxCalls) }

SpecParams == RunInit(ParamPrograms) /\ [][Next]_vars

\* the scopes that existed before the step hold what they held
ScopesKept == \A s \in DOMAIN envs : envs'[s] = envs[s]

\* C26: binding the parameters at a call creates bindings only in the fresh
\* call scope: the call changes no binding of the closure scope, its
\* ancestors or the globals and does not fail, even when the parameter is
\* named like a visible variable ($y) or a builtin (len).
C26_ArgumentsBindInCallScope ==
    [][ (nsteps' = nsteps + 1 /\ last' \in ParamCalls)
            => (result'.k = "value" /\ ScopesKept) ]_vars

\* what holds instead: a parameter whose name no scope of the closure chain
\* binds is bound in the call scope alone; a parameter named like a variable
\* of the top scope overwrites that variable; a parameter named like a
\* builtin makes the call raise RuntimeError
ParameterDefinedUpward ==
    [][ (nsteps' = nsteps + 1 /\ last' \in ParamCalls) =>
          LET top == 2
              bound == Binds(envs, top, <<"y">>)
          IN  /\ (last' = ParamCallQ \/ (last' = ParamCallK /\ ~bound)) =>
                    /\ result'.k = "value"
                    /\ ScopesKept
                    /\ Len(envs') = Len(envs) + 1
              /\ (last' = ParamCallK /\ bound) =>
                    /\ result'.k = "value"
                    /\ envs'[top].values[<<"y">>] = IntValue(9)
                    /\ ~Binds(envs', Len(envs'), <<"y">>)
              /\ last' = ParamCallB =>
                    /\ result'.k = "error"
                    /\ result'.cls = "RuntimeError" ]_vars

\* `$y = 7; k(9);` has left 9 in the top scope's $y
ParameterOverwroteGlobal ==
    /\ nsteps = 2
    /\ program.statements[1] = BindY
    /\ last = ParamCallK
    /\ envs[2].values[<<"y">>] = IntValue(9)

-----------------------------------------------------------------------------
(* The current environment across top-level statements that end with a      *)
(* value, with a Return signal or with a runtime error                       *)

\* function k($y) { return 0; }   function b($len) { return 0; }
RestoreFunctions == << ParamFunctions[1], ParamFunctions[2] >>

\* class C { function constructor() { return 9; } }
RestoreClass ==
    ClassDeclaration(<<"C">>,
        << FunctionDeclaration(<<"c", "o", "n", "s", "t", "r", "u", "c", "t", "o", "r">>,
                               <<>>, Block(<<ReturnStatement(Num(9))>>)) >>)

ConstThis == VariableDeclaration(<<"$", "t", "h", "i", "s">>, Num(1), TRUE)  \* const $this = 1;
NewC == Do(NewExpression(<<"C">>, <<>>))                    \* new C();
CallC0 == Do(Call(Variable(<<"C">>), <<>>))                 \* C();
BlockSet == Block(<<Set("a", Num(1))>>)                     \* { $a = 1; }
BlockDivide ==                                              \* { { 1 / 0; } }
    Block(<<Block(<<Do(BinaryOperation(Num(1), "SLASH", Num(0)))>>)>>)
BlockReturn == Block(<<ReturnStatement(Num(1))>>)           \* { return 1; }
\* try { throw 1; } catch ($e) { $a = 2; } finally { $a = 3; }
TryThrow ==
    TryCatchStatement(Block(<<ThrowStatement(Num(1))>>),
                      <<CatchClause(Token(<<"$", "e">>), Block(<<Set("a", Num(2))>>))>>,
                      Block(<<Set("a", Num(3))>>))
\* try { new C(); } catch ($e) { }
TryNewC ==
    TryCatchStatement(Block(<<NewC>>), <<CatchClause(Token(<<"$", "e">>), Block(<<>>))>>, NoNode)

Constructions == {NewC, CallC0}

RestoreStatements ==
    {ConstThis, BlockSet, BlockDivide, BlockReturn, TryThrow, TryNewC, ParamCallK, ParamCallB}
        \cup Constructions

RestorePrograms ==
    { ProgramWithClasses(RestoreFunctions, <<RestoreClass>>, stmts) :
        stmts \in SeqsOf(RestoreStatements, MaxCalls) }

SpecRestore == RunInit(RestorePrograms) /\ [][Next]_vars

\* C28: after executing a statement, whether it ends with a value, a signal
\* or a runtime error (an error raised while binding `this` or a parameter
\* included), the current environment is the scope it was before.
C28_EnvironmentRestored ==
    [][ nsteps' = nsteps + 1 => env' = env ]_vars

\* what holds instead: the current environment is kept by every statement
\* but a construction at which `this` is a constant of the closure chain;
\* that one raises RuntimeError and leaves the constructor scope current
RestoredButAtThis ==
    [][ nsteps' = nsteps + 1 =>
          IF last' \in Constructions /\ Binds(envs, 2, <<"t", "h", "i", "s">>)
          THEN /\ result'.k = "error"
               /\ result'.cls = "RuntimeError"
               /\ env' = Len(envs')
               /\ env' # env
               /\ envs'[env'].parent = 2
          ELSE env' = env ]_vars

\* `const $this = 1; new C();` has ended in the constructor scope
LeftInConstructorScope ==
    /\ nsteps = 2
    /\ program.statements[1] = ConstThis
    /\ last = NewC
    /\ status = "error"
    /\ env = 3

-----------------------------------------------------------------------------
(* The parser (parser/parser.py, parser/precedence.py).  A parsing method   *)
(* takes the Parser object P and yields an outcome like the interpreter's:  *)
(* Value(P', node) when it returns, Raise(P', "AttributeError", ..) when a  *)
(* Python exception leaves it, Spins(P') when one of its loops has run an   *)
(* iteration that consumed no token and did not leave the loop.  The        *)
(* methods read nothing of P but `tokens` and `current`, so such an         *)
(* iteration is repeated forever.  Nodes carry lexemes, not positions.      *)
(* The default ErrorHandler records an error and does not raise, so no      *)
(* ParseError is ever raised.                                               *)

\* Precedence
Precedence ==
    [NONE |-> 0, ASSIGNMENT |-> 1, TERNARY |-> 2, NULL_COALESCE |-> 3, LOGICAL_OR |-> 4,
     LOGICAL_AND |-> 5, BITWISE_OR |-> 6, BITWISE_XOR |-> 7, BITWISE_AND |-> 8,
     EQUALITY |-> 9, RELATIONAL |-> 10, SHIFT |-> 11, ADDITIVE |-> 12,
     MULTIPLICATIVE |-> 13, POWER |-> 14, UNARY |-> 15, POSTFIX |-> 16, CALL |-> 17,
     PRIMARY |-> 18]

\* can_be_assignment_operator
AssignmentOperators ==
    {"EQUAL", "PLUS_EQUAL", "MINUS_EQUAL", "STAR_EQUAL", "SLASH_EQUAL", "PERCENT_EQUAL",
     "CARET_EQUAL", "AMPERSAND_EQUAL", "PIPE_EQUAL"}

\* can_be_binary_operator
BinaryOperatorTypes ==
    {"PLUS", "MINUS", "STAR", "SLASH", "PERCENT", "CARET", "EQ", "NE", "GT", "LT", "GE",
     "LE", "LIKE", "MATCH", "CONTAINS", "NOTCONTAINS", "IN_OP", "NOTIN", "IS_OP", "ISNOT",
     "REPLACE", "AND", "OR", "AMPERSAND", "PIPE", "LESS_LESS", "GREATER_GREATER",
     "QUESTION_QUESTION"}

\* OPERATOR_PRECEDENCE.get(token_type, Precedence.NONE); the table's key
\* TokenType.STAR_STAR is no member of TokenType and stands for no token
GetPrecedence(type) ==
    CASE type \in AssignmentOperators -> Precedence.ASSIGNMENT
      [] type = "QUESTION" -> Precedence.TERNARY
      [] type = "QUESTION_QUESTION" -> Precedence.NULL_COALESCE
      [] type = "OR" -> Precedence.LOGICAL_OR
      [] type = "AND" -> Precedence.LOGICAL_AND
      [] type = "PIPE" -> Precedence.BITWISE_OR
      [] type = "CARET" -> Precedence.BITWISE_XOR
      [] type = "AMPERSAND" -> Precedence.BITWISE_AND
      [] type \in {"EQ", "NE", "LIKE", "MATCH", "CONTAINS", "NOTCONTAINS", "IN_OP", "NOTIN",
                   "IS_OP", "ISNOT", "REPLACE"} -> Precedence.EQUALITY
      [] type \in {"GT", "LT", "GE", "LE"} -> Precedence.RELATIONAL
      [] type \in {"LESS_LESS", "GREATER_GREATER"} -> Precedence.SHIFT
      [] type \in {"PLUS", "MINUS"} -> Precedence.ADDITIVE
      [] type \in {"STAR", "SLASH", "PERCENT"} -> Precedence.MULTIPLICATIVE
      [] type \in {"PLUS_PLUS", "MINUS_MINUS"} -> Precedence.POSTFIX
      [] type \in {"LPAREN", "LBRACKET", "DOT", "QUESTION_DOT", "DOUBLE_COLON"} -> Precedence.CALL
      [] OTHER -> Precedence.NONE

\* Parser(lexer) on the tokens that lexer.tokenize() returned
NewParser(tokens) ==
    [tokens |-> tokens, current |-> 1, brace_depth |-> 0, paren_depth |-> 0,
     bracket_depth |-> 0, errors |-> <<>>, state |-> "new", program |-> NoNode]

\* the token _peek, _peek_next and _previous make up where there is none
EOFToken == CreateToken("EOF", <<>>, LitNone)

ParserPeek(P) == IF P.current > Len(P.tokens) THEN EOFToken ELSE P.tokens[P.current]
ParserPeekNext(P) ==
    IF P.current + 1 > Len(P.tokens) THEN EOFToken ELSE P.tokens[P.current + 1]
ParserIsAtEnd(P) == P.current > Len(P.tokens) \/ ParserPeek(P).type = "EOF"
ParserCheck(P, types) == ~ParserIsAtEnd(P) /\ ParserPeek(P).type \in types
ParserPrevious(P) ==
    IF P.current = 1
    THEN (IF P.tokens # <<>> THEN P.tokens[1] ELSE EOFToken)
    ELSE P.tokens[P.current - 1]
\* _advance: the parser after it; the token it returns is ParserPrevious of that
ParserAdvance(P) == IF ParserIsAtEnd(P) THEN P ELSE [P EXCEPT !.current = @ + 1]
\* _match: the parser after it; it returned True when ParserCheck held before
ParserMatch(P, types) == IF ParserCheck(P, types) THEN ParserAdvance(P) ELSE P
\* _error: the message goes to the error handler
ParserError(P, message) == [P EXCEPT !.errors = Append(@, message)]
\* _consume: the parser after it, and the token it returns
Consume(P, type, message) ==
    IF ParserCheck(P, {type}) THEN ParserAdvance(P) ELSE ParserError(P, message)
Consumed(P, type) ==
    IF ParserCheck(P, {type}) THEN ParserPeek(P) ELSE CreateToken(type, <<>>, LitNone)

\* a loop of the parser that does not end
Spins(P) == [m |-> P, k |-> "spins", v |-> NoNode, cls |-> ""]

Deeper(P, depth) ==
    CASE depth = "brace" -> [P EXCEPT !.brace_depth = @ + 1]
      [] depth = "paren" -> [P EXCEPT !.paren_depth = @ + 1]
      [] depth = "bracket" -> [P EXCEPT !.bracket_depth = @ + 1]
Shallower(P, depth) ==
    CASE depth = "brace" -> [P EXCEPT !.brace_depth = @ - 1]
      [] depth = "paren" -> [P EXCEPT !.paren_depth = @ - 1]
      [] depth = "bracket" -> [P EXCEPT !.bracket_depth = @ - 1]

\* `self._consume(type, message)` and `self.<depth>_depth -= 1`, yielding node
Close(P, type, message, depth, node) ==
    Value(Shallower(Consume(P, type, message), depth), node)

\* the tokens after which _parse_precedence goes on with _parse_infix
InfixStarts ==
    {"LPAREN", "LBRACKET", "DOT", "QUESTION_DOT", "DOUBLE_COLON", "PLUS_PLUS",
     "MINUS_MINUS", "QUESTION"}

\* the statement keywords and infix tokens whose methods are not modelled
OtherStatements ==
    {"IF", "FOR", "WHILE", "DO", "FOREACH", "RETURN", "BREAK", "CONTINUE", "TRY", "THROW"}
OtherDeclarations == {"USING", "NAMESPACE", "CLASS", "FUNCTION"}

RECURSIVE ParseStatement(_)
RECURSIVE ParsePrecedence(_, _)
RECURSIVE InfixLoop(_, _, _)
RECURSIVE ParseExpressionList(_, _)
RECURSIVE StatementLoop(_, _, _, _)
RECURSIVE SwitchLoop(_, _, _)
RECURSIVE CaseValues(_, _)

ParseExpression(P) == ParsePrecedence(P, Precedence.ASSIGNMENT)

\* _parse_identifier outside a type context: `Variable(token, token.line,
\* token.column)` passes the token by position, where the node classes
\* (grammar.py) have `line` first and `name_token` last: the token becomes
\* the line of the node and its name_token is a column number
ParseIdentifier(token) == [t |-> "Variable", name |-> <<>>, line |-> token.lexeme]

\* _parse_prefix: for a token that is neither IDENTIFIER nor VARIABLE the
\* third test names TokenType.FLOAT, which TokenType does not have
ParsePrefix(P, token) ==
    IF token.type = "IDENTIFIER" THEN Value(P, ParseIdentifier(token))
    ELSE IF token.type = "VARIABLE" THEN Value(P, Variable(token.lexeme))
    ELSE Raise(P, "AttributeError", "FLOAT")

\* _parse_call, after the `(`
ParseCall(P, callee) ==
    Then(IF ParserCheck(Deeper(P, "paren"), {"RPAREN"})
         THEN Value(Deeper(P, "paren"), <<>>)
         ELSE ParseExpressionList(Deeper(P, "paren"), <<>>),
         LAMBDA a : Close(a.m, "RPAREN", "Expected ')' after arguments", "paren",
                          CallExpression(callee, a.v)))

ParseExpressionList(P, expressions) ==
    Then(ParseExpression(P),
         LAMBDA e : IF ParserCheck(e.m, {"COMMA"})
                    THEN ParseExpressionList(ParserAdvance(e.m), Append(expressions, e.v))
                    ELSE Value(e.m, Append(expressions, e.v)))

\* _parse_index_access, after the `[`
ParseIndexAccess(P, obj) ==
    Then(ParseExpression(Deeper(P, "bracket")),
         LAMBDA i : Close(i.m, "RBRACKET", "Expected ']' after index", "bracket",
                          IndexAccess(obj, i.v)))

\* _parse_binary_operation: the right operand is parsed at the operator's
\* own precedence
ParseBinaryOperation(P, left, operator) ==
    Then(ParsePrecedence(P, GetPrecedence(operator.type)),
         LAMBDA r : Value(r.m, BinaryOperation(left, operator.type, r.v)))

\* _parse_infix for the consumed token
ParseInfix(P, left, token) ==
    IF token.type \in AssignmentOperators
    THEN IF left.t \notin {"Variable", "MemberAccess", "IndexAccess"}
         THEN Value(ParserError(P, "Invalid assignment target"), left)
         ELSE Then(ParsePrecedence(P, Precedence.ASSIGNMENT - 1),
                   LAMBDA r : Value(r.m, Assignment(left, token.type, r.v)))
    ELSE IF token.type \in BinaryOperatorTypes THEN ParseBinaryOperation(P, left, token)
    ELSE IF token.type = "LPAREN" THEN ParseCall(P, left)
    ELSE IF token.type = "LBRACKET" THEN ParseIndexAccess(P, left)
    ELSE Unmodelled(P)

\* the while loop of _parse_precedence
InfixLoop(P, precedence, left) ==
    IF /\ precedence <= GetPrecedence(ParserPeek(P).type)
       /\ ~ParserIsAtEnd(P)
       /\ ParserPeek(P).type \in BinaryOperatorTypes \cup AssignmentOperators \cup InfixStarts
    THEN Then(ParseInfix(ParserAdvance(P), left, ParserPeek(P)),
              LAMBDA l : InfixLoop(l.m, precedence, l.v))
    ELSE Value(P, left)

\* _parse_precedence: `token = self._advance()` yields the previous token
\* again when the parser is at the end
ParsePrecedence(P, precedence) ==
    Then(ParsePrefix(ParserAdvance(P), ParserPrevious(ParserAdvance(P))),
         LAMBDA l : InfixLoop(l.m, precedence, l.v))

\* _parse_expression_statement
ParseExpressionStatement(P) ==
    Then(ParseExpression(P),
         LAMBDA e : Value(Consume(e.m, "SEMICOLON", "Expected ';' after expression"),
                          ExpressionStatement(e.v)))

\* _parse_variable_declaration, from `name_token = self._consume(..)` on
DeclareFrom(P, is_constant) ==
    Then(IF ParserCheck(Consume(P, "VARIABLE", "Expected variable name starting with '$'"),
                        {"EQUAL"})
         THEN ParseExpression(ParserAdvance(
                  Consume(P, "VARIABLE", "Expected variable name starting with '$'")))
         ELSE Value(Consume(P, "VARIABLE", "Expected variable name starting with '$'"), NoNode),
         LAMBDA i : Value(Consume(i.m, "SEMICOLON", "Expected ';' after variable declaration"),
                          VariableDeclaration(Consumed(P, "VARIABLE").lexeme, i.v, is_constant)))

\* _parse_variable_declaration (type annotations are not modelled)
ParseVariableDeclaration(P) ==
    IF ParserCheck(ParserMatch(P, {"CONST"}), {"LBRACKET"}) THEN Unmodelled(P)
    ELSE DeclareFrom(ParserMatch(P, {"CONST"}), ParserCheck(P, {"CONST"}))

\* `while not self._check(closers) [and not self._is_at_end()]:
\*      stmt = self._parse_statement(); if stmt: statements.append(stmt)`
StatementLoop(P, closers, to_end, statements) ==
    IF ParserCheck(P, closers) \/ (to_end /\ ParserIsAtEnd(P))
    THEN Value(P, statements)
    ELSE Then(ParseStatement(P),
              LAMBDA s : IF s.m.current = P.current THEN Spins(s.m)
                         ELSE StatementLoop(s.m, closers, to_end,
                                  IF Present(s.v) THEN Append(statements, s.v)
                                  ELSE statements))

\* _parse_block
ParseBlock(P) ==
    Then(StatementLoop(Deeper(Consume(P, "LBRACE", "Expected '{'"), "brace"),
                       {"RBRACE"}, TRUE, <<>>),
         LAMBDA s : Close(s.m, "RBRACE", "Expected '}' after block", "brace", Block(s.v)))

\* the body of a case or default clause, after its values or keyword
ClauseBody(P, colon_closers, colon_to_end, what, unclosed) ==
    IF ParserCheck(P, {"COLON"})
    THEN StatementLoop(ParserAdvance(P), colon_closers, colon_to_end, <<>>)
    ELSE IF ParserCheck(P, {"LBRACE"})
    THEN Then(StatementLoop(Deeper(ParserAdvance(P), "brace"), {"RBRACE"}, TRUE, <<>>),
              LAMBDA s : Close(s.m, "RBRACE", unclosed, "brace", s.v))
    ELSE Value(Consume(P, "COLON", what), <<>>)

\* `values.append(self._parse_expression())`, again after each comma
CaseValues(P, values) ==
    Then(ParseExpression(P),
         LAMBDA e : IF ParserCheck(e.m, {"COMMA"})
                    THEN CaseValues(ParserAdvance(e.m), Append(values, e.v))
                    ELSE Value(e.m, Append(values, e.v)))

\* the loop over the clauses of _parse_switch_statement; the statements of
\* a `case v:` body are read until `case`, `default` or `}` without a test
\* for the end of the tokens
SwitchLoop(P, cases, default_case) ==
    IF ParserCheck(P, {"RBRACE"}) \/ ParserIsAtEnd(P)
    THEN Value(P, [cases |-> cases, default_case |-> default_case])
    ELSE IF ParserCheck(P, {"CASE"})
    THEN Then(CaseValues(ParserAdvance(P), <<>>),
              LAMBDA v : Then(ClauseBody(v.m, {"CASE", "DEFAULT", "RBRACE"}, FALSE,
                                         "Expected ':' after case values",
                                         "Expected '}' after case body"),
                 LAMBDA b : SwitchLoop(b.m, Append(cases, CaseClause(v.v, Block(b.v))),
                                       default_case)))
    ELSE IF ParserCheck(P, {"DEFAULT"})
    THEN Then(ClauseBody(IF Present(default_case)
                         THEN ParserError(ParserAdvance(P),
                                          "Multiple default clauses in switch statement")
                         ELSE ParserAdvance(P),
                         {"RBRACE"}, TRUE, "Expected ':' after 'default'",
                         "Expected '}' after default body"),
              LAMBDA b : SwitchLoop(b.m, cases, DefaultCase(Block(b.v))))
    ELSE SwitchLoop(ParserAdvance(ParserError(P, "Expected 'case' or 'default'")),
                    cases, default_case)

\* _parse_switch_statement, up to the `{`
SwitchHead(P) ==
    Then(ParseExpression(Deeper(Consume(Consume(P, "SWITCH", "Expected 'switch'"),
                                        "LPAREN", "Expected '(' after 'switch'"), "paren")),
         LAMBDA e : Value(Deeper(Consume(Shallower(Consume(e.m, "RPAREN",
                                     "Expected ')' after switch expression"), "paren"),
                                 "LBRACE", "Expected '{' after switch expression"), "brace"),
                          e.v))

\* _parse_switch_statement
ParseSwitchStatement(P) ==
    Then(SwitchHead(P),
         LAMBDA e : Then(SwitchLoop(e.m, <<>>, NoNode),
            LAMBDA c : Close(c.m, "RBRACE", "Expected '}' after switch statement", "brace",
                             SwitchStatement(e.v, c.v.cases, c.v.default_case))))

\* _parse_statement
ParseStatement(P) ==
    IF ParserIsAtEnd(P) THEN Value(P, NoNode)
    ELSE IF ParserCheck(P, OtherStatements) THEN Unmodelled(P)
    ELSE IF ParserCheck(P, {"SWITCH"}) THEN ParseSwitchStatement(P)
    ELSE IF ParserCheck(P, {"LBRACE"}) THEN ParseBlock(P)
    ELSE IF ParserCheck(P, {"VARIABLE"})
    THEN IF ParserPeekNext(P).type \in {"DOT", "QUESTION_DOT", "DOUBLE_COLON", "LPAREN", "LBRACKET"}
         THEN ParseExpressionStatement(P)
         ELSE ParseVariableDeclaration(P)
    ELSE ParseExpressionStatement(P)

\* the loop of _parse_program: a comment token is consumed by _match and
\* the token after it by the _advance that follows
RECURSIVE ProgramLoop(_, _)
ProgramLoop(P, statements) ==
    IF ParserIsAtEnd(P) THEN Value(P, statements)
    ELSE IF ParserCheck(P, {"COMMENT", "BLOCK_COMMENT_START"})
    THEN ProgramLoop(ParserAdvance(ParserAdvance(P)), statements)
    ELSE IF ParserCheck(P, OtherDeclarations) THEN Unmodelled(P)
    ELSE Then(ParseStatement(P),
              LAMBDA s : IF s.m.current = P.current THEN Spins(s.m)
                         ELSE ProgramLoop(s.m, IF Present(s.v) THEN Append(statements, s.v)
                                               ELSE statements))

ParsedProgram(statements) == [t |-> "Program", statements |-> statements]

ParseProgram(P) ==
    Then(ProgramLoop(P, <<>>), LAMBDA s : Value(s.m, ParsedProgram(s.v)))

\* the three tests of parse() after _parse_program
ReportUnmatched(P) ==
    [P EXCEPT !.errors =
        @ \o (IF P.brace_depth > 0 THEN <<"Unmatched '{'">> ELSE <<>>)
          \o (IF P.paren_depth > 0 THEN <<"Unmatched '('">> ELSE <<>>)
          \o (IF P.bracket_depth > 0 THEN <<"Unmatched '['">> ELSE <<>>)]

\* Parser.parse
Parse(P) == Then(ParseProgram(P), LAMBDA r : Value(ReportUnmatched(r.m), r.v))

\* the Parser after parse(): returned, left by an exception, or still in a loop
AfterParse(r) ==
    [r.m EXCEPT !.state = IF r.k = "value" THEN "returned" ELSE IF r.k = "spins" THEN "spinning" ELSE r.cls,
                !.program = r.v]

\* the parser of a run on the token sequences T
ParserInit(T) ==
    /\ parser \in { NewParser(tokens) : tokens \in T }
    /\ memory = NewMemoryManager
    /\ ledger = NoCalls
    /\ lexer = NoLexer
    /\ main = NoMain
    /\ Unstarted("parsing")

ParseCalled ==
    /\ parser.state = "new"
    /\ parser' = AfterParse(Parse(parser))
    /\ UNCHANGED <<envs, heap, env, output, status, result, last, nsteps, program, main, memory, ledger, lexer>>

\* Parser(lexer): `self.tokens = lexer.tokenize()`; an exception of the
\* lexer leaves the constructor
ParserConstructed ==
    /\ parser.state = "none"
    /\ lexer.state = "scanning"
    /\ lexer' = TokenizeFrom(lexer)
    /\ parser' = IF lexer'.state = "done" THEN NewParser(lexer'.tokens)
                 ELSE [state |-> "unconstructed"]
    /\ UNCHANGED <<envs, heap, env, output, status, result, last, nsteps, program, main, memory, ledger>>

-----------------------------------------------------------------------------
(* Parsing token sequences that end in EOF: every short sequence over the   *)
(* token kinds below, and every truncation of some longer programs          *)

MaxTokens == 3      \* longest sequence of the exhaustive part of the pool

Tok(type, lexeme) == CreateToken(type, lexeme, LitNone)
TVar(c) == Tok("VARIABLE", <<"$", c>>)
TSemi == Tok("SEMICOLON", <<";">>)
TLBrace == Tok("LBRACE", <<"{">>)
TRBrace == Tok("RBRACE", <<"}">>)
TLParen == Tok("LPAREN", <<"(">>)
TRParen == Tok("RPAREN", <<")">>)
TLBracket == Tok("LBRACKET", <<"[">>)
TRBracket == Tok("RBRACKET", <<"]">>)
TSwitch == Tok("SWITCH", <<"s", "w", "i", "t", "c", "h">>)
TCase == Tok("CASE", <<"c", "a", "s", "e">>)
TDefault == Tok("DEFAULT", <<"d", "e", "f", "a", "u", "l", "t">>)
TColon == Tok("COLON", <<":">>)
TPlus == Tok("PLUS", <<"+">>)
TMinus == Tok("MINUS", <<"-">>)
TNot == Tok("NOT", <<"-", "n", "o", "t">>)
TAnd == Tok("AND", <<"-", "a", "n", "d">>)
TEqual == Tok("EQUAL", <<"=">>)

TokenKinds == {TVar("a"), TSemi, TLBrace, TRBrace, TLParen, TLBracket, TEqual, TPlus}

\* switch ($a) { case $b: $c; } $d;
\* switch ($a) { case $b { $c; } default: $d; }
\* { $a($b); $a[$b] = $c; }
\* -$a + $b;        -not $a -and $b;
LongPrograms ==
    { <<TSwitch, TLParen, TVar("a"), TRParen, TLBrace, TCase, TVar("b"), TColon,
        TVar("c"), TSemi, TRBrace, TVar("d"), TSemi>>,
      <<TSwitch, TLParen, TVar("a"), TRParen, TLBrace, TCase, TVar("b"), TLBrace,
        TVar("c"), TSemi, TRBrace, TDefault, TColon, TVar("d"), TSemi, TRBrace>>,
      <<TLBrace, TVar("a"), TLParen, TVar("b"), TRParen, TSemi,
        TVar("a"), TLBracket, TVar("b"), TRBracket, TEqual, TVar("c"), TSemi, TRBrace>>,
      <<TMinus, TVar("a"), TPlus, TVar("b"), TSemi>>,
      <<TNot, TVar("a"), TAnd, TVar("b"), TSemi>> }

Truncations(S) == UNION { { SubSeq(s, 1, n) : n \in 0..Len(s) } : s \in S }

ParserInputs ==
    { tokens \o <<EOFToken>> : tokens \in SeqsUpTo(TokenKinds, MaxTokens) \cup Truncations(LongPrograms) }

SpecParser == ParserInit(ParserInputs) /\ [][ParseCalled]_vars

\* the tokens of the given type among the tokens before the EOF
CountType(tokens, type) == Cardinality({ i \in DOMAIN tokens : tokens[i].type = type })

\* more openers than closers of a kind: one opener at least has no closer
Unclosed(tokens, opener, closer) == CountType(tokens, opener) > CountType(tokens, closer)

Reported(P, message) == \E i \in DOMAIN P.errors : P.errors[i] = message

\* C21: when the token stream opens a `{`, `(` or `[` and reaches EOF before
\* the matching closer, parse() reports an 'Unmatched' error for that
\* delimiter: its depth counter is greater than 0 when program parsing
\* returns.
C21_UnmatchedReported ==
    parser.state = "returned" =>
        /\ Unclosed(parser.tokens, "LBRACE", "RBRACE") => Reported(parser, "Unmatched '{'")
        /\ Unclosed(parser.tokens, "LPAREN", "RPAREN") => Reported(parser, "Unmatched '('")
        /\ Unclosed(parser.tokens, "LBRACKET", "RBRACKET") => Reported(parser, "Unmatched '['")

\* what holds instead: every method decrements its counter after the
\* _consume of the closer, whether or not the closer was there, so that a
\* parse() that returns has all counters at 0 and reports no 'Unmatched'
\* error; the missing closer is reported by _consume as 'Expected ...'
NeverUnmatched ==
    parser.state = "returned" =>
        /\ parser.brace_depth = 0 /\ parser.paren_depth = 0 /\ parser.bracket_depth = 0
        /\ ~Reported(parser, "Unmatched '{'")
        /\ ~Reported(parser, "Unmatched '('")
        /\ ~Reported(parser, "Unmatched '['")
        /\ parser.tokens = <<TLBrace, EOFToken>> =>
              parser.errors = <<"Expected '}' after block">>

\* `{` and EOF: parse() has returned without an 'Unmatched' error
BlockLeftOpen ==
    /\ parser.state = "returned"
    /\ parser.tokens = <<TLBrace, EOFToken>>
    /\ parser.program = ParsedProgram(<<Block(<<>>)>>)

\* C27: parse() terminates for every token sequence ending in EOF: every
\* iteration of the program, block and switch/case loops consumes a token
\* or leaves the loop.
C27_ParseTerminates == parser.state # "spinning"

\* what holds instead: the loop over the statements of a `case v:` body
\* tests for `case`, `default` and `}` but not for the end of the tokens;
\* there _parse_statement returns None and consumes nothing.  No other
\* loop spins.
SpinsInCaseBody ==
    parser.state = "spinning" =>
        /\ ParserIsAtEnd(parser)
        /\ \E i \in DOMAIN parser.tokens :
              /\ parser.tokens[i].type = "COLON"
              /\ \E j \in 1..(i - 1) : parser.tokens[j].type = "CASE"
              /\ \A j \in (i + 1)..Len(parser.tokens) :
                    parser.tokens[j].type \notin {"CASE", "DEFAULT", "RBRACE"}

\* `switch ($a) { case $b:` and EOF: the case body loop does not end
CaseBodySpins ==
    /\ parser.state = "spinning"
    /\ parser.tokens = <<TSwitch, TLParen, TVar("a"), TRParen, TLBrace, TCase, TVar("b"),
                         TColon, EOFToken>>

UnaryOperation(operator, operand) ==
    [t |-> "UnaryOperation", operator |-> operator, operand |-> operand]

\* `op $a op2 $b;` with the prefix operator applied to $a alone
PrefixFirst(op, op2) ==
    ParsedProgram(<<ExpressionStatement(
        BinaryOperation(UnaryOperation(op, Variable(<<"$", "a">>)), op2,
                        Variable(<<"$", "b">>)))>>)

\* C25: a prefix `-`, `+` or `-not` applies to the operand that binds at
\* unary precedence only: `-a + b` parses as `(-a) + b` and
\* `-not a -and b` as `(-not a) -and b`.
C25_PrefixBindsTighter ==
    parser.state # "new" =>
        /\ parser.tokens = <<TMinus, TVar("a"), TPlus, TVar("b"), TSemi, EOFToken>> =>
              (parser.state = "returned" /\ parser.program = PrefixFirst("MINUS", "PLUS"))
        /\ parser.tokens = <<TNot, TVar("a"), TAnd, TVar("b"), TSemi, EOFToken>> =>
              (parser.state = "returned" /\ parser.program = PrefixFirst("NOT", "AND"))

\* what holds instead: an expression that starts with a token other than
\* an identifier or a variable makes _parse_prefix raise AttributeError
PrefixRaises ==
    (parser.state # "new" /\ parser.tokens[1].type \in {"PLUS", "MINUS", "NOT", "LPAREN", "EQUAL"})
        => (parser.state = "AttributeError" /\ parser.current = 2)

\* `-$a + $b;` has raised AttributeError
MinusRaised ==
    /\ parser.state = "AttributeError"
    /\ parser.tokens = <<TMinus, TVar("a"), TPlus, TVar("b"), TSemi, EOFToken>>

\* no token sequence of the pool reaches a method that is not modelled
ParserModelled == parser.state # "Unmodelled"

-----------------------------------------------------------------------------
(* Parsing the lexer's tokens of sources with comments                      *)

MaxComment == 4     \* longest source of the comment pool

CommentAlphabet == {"<", "#", ">", "x", ";", "\n"}

CommentSources == UNION { SeqsOf(CommentAlphabet, n) : n \in 0..MaxComment }

CommentInit ==
    /\ lexer \in { NewLexer(source) : source \in CommentSources }
    /\ parser = NoParser
    /\ memory = NewMemoryManager
    /\ ledger = NoCalls
    /\ main = NoMain
    /\ Unstarted("parsing")

CommentNext == ParserConstructed \/ ParseCalled

SpecComments == CommentInit /\ [][CommentNext]_vars

CommentTypes == {"COMMENT", "BLOCK_COMMENT_START", "BLOCK_COMMENT_END"}

\* the token stream without its comment tokens
RECURSIVE WithoutComments(_)
WithoutComments(tokens) ==
    IF tokens = <<>> THEN <<>>
    ELSE IF Head(tokens).type \in CommentTypes THEN WithoutComments(Tail(tokens))
    ELSE <<Head(tokens)>> \o WithoutComments(Tail(tokens))

\* what a parse() shows: how it ended, the Program and the errors
Shown(P) == [state |-> P.state, program |-> P.program, errors |-> P.errors]

\* C30: comments do not change the parse: the Program built from the
\* lexer's token stream equals the one built from the stream without its
\* comment tokens; the token after a comment is not dropped, and a comment
\* is not reported as a syntax error.
C30_CommentsIgnored ==
    parser.state \notin {"none", "unconstructed", "new"} =>
        Shown(parser) = Shown(AfterParse(Parse(NewParser(WithoutComments(parser.tokens)))))

\* what holds instead: the parse of a stream that starts with a comment
\* token is the parse of the stream from the second token after the comment
CommentDropsNext ==
    (/\ parser.state \notin {"none", "unconstructed", "new"}
     /\ parser.tokens[1].type \in {"COMMENT", "BLOCK_COMMENT_START"}
     /\ Len(parser.tokens) > 2)
        => Shown(parser) =
              Shown(AfterParse(Parse(NewParser(SubSeq(parser.tokens, 3, Len(parser.tokens))))))

\* `<#x`: the lexer yields a comment start, the identifier x and EOF; the
\* parser has dropped x with the comment and built an empty Program
IdentifierDropped ==
    /\ lexer.source = <<"<", "#", "x">>
    /\ parser.state = "returned"
    /\ parser.program = ParsedProgram(<<>>)
    /\ parser.errors = <<>>
    /\ Len(parser.tokens) = 3

=============================================================================
